---- MODULE Spec2Model ----
(***************************************************************************)
(* Verification model of the paper-trading engine of j-ble/TradingBot:     *)
(* the risk engine (core/trade_simulator.py), the signal dispatch loop     *)
(* (core/signal_monitor.py), the position lifecycle manager                *)
(* (core/position_manager.py), the datastore contracts                     *)
(* (database/queries.py, database/models.py, config.py) and the offline    *)
(* replay driver (backtest.py).                                            *)
(*                                                                         *)
(* Numbers.  The program computes with decimal.Decimal.  A Decimal value v *)
(* is held here as the integer 1000 * v (thousandths).  Every input price  *)
(* and balance of the model is a whole number of units, so every product   *)
(* with 0.998, 1.003, 1.05, 0.95 and 0.01 is a whole number of thousandths *)
(* and the integer arithmetic below is exact, as Decimal's is.  A quotient *)
(* that Decimal would round (position size, percentages) is kept as the    *)
(* exact pair <<numerator, denominator>>.  A fraction constant f is the    *)
(* pair <<numerator, denominator>>.  A position's notional value in USD,   *)
(* position_btc * entry_price, is kept as the product                      *)
(* [quantity |-> position_btc, price |-> entry_price].                     *)
(*                                                                         *)
(* Exceptions.  An operator that models a Python function which can raise  *)
(* returns a record whose field exc is "ok" or the name of the exception   *)
(* class; the caller propagates or handles it as the code does.            *)
(***************************************************************************)
EXTENDS Integers, Sequences, FiniteSets, TLC

Abs(x) == IF x < 0 THEN -x ELSE x

\* Decimal(n) of a whole number n, in thousandths.
Dec(n) == n * 1000

\* x * f for a fraction constant f (exact on the model's inputs).  The
\* product is taken on the quotient and the remainder of x by the denominator
\* so that no intermediate value leaves the 32-bit integers of the checker.
Times(x, f) == (x \div f[2]) * f[1] + ((x % f[2]) * f[1]) \div f[2]

\* Decimal('1') + f and Decimal('1') - f, as fractions.
OnePlus(f) == <<f[2] + f[1], f[2]>>
OneMinus(f) == <<f[2] - f[1], f[2]>>

(***************************************************************************)
(* config.py: the attributes class Config defines (those the engine reads  *)
(* or could read).  An attribute that is not in the class raises           *)
(* AttributeError when read.                                               *)
(***************************************************************************)
config ==
    [ RISK_PER_TRADE                   |-> <<1, 100>>,
      MIN_RR_RATIO                     |-> <<2, 1>>,
      BUFFER_BELOW_LOW                 |-> <<2, 1000>>,
      BUFFER_ABOVE_HIGH                |-> <<3, 1000>>,
      MIN_STOP_DISTANCE_PERCENT        |-> <<5, 10>>,
      MAX_STOP_DISTANCE_PERCENT        |-> <<3, 1>>,
      FIXED_SLIPPAGE_PERCENT           |-> <<5, 100>>,
      TAKER_FEE_PERCENT                |-> <<60, 100>>,
      MAKER_FEE_PERCENT                |-> <<40, 100>>,
      MAX_POSITIONS                    |-> <<1, 1>>,
      MAX_TRADE_DURATION_HOURS         |-> <<72, 1>>,
      TRAILING_STOP_ACTIVATION_PERCENT |-> <<80, 1>> ]

\* getattr(obj, name): the value, or AttributeError.
GetAttr(obj, name) ==
    IF name \in DOMAIN obj
    THEN [exc |-> "ok", val |-> obj[name]]
    ELSE [exc |-> "AttributeError", val |-> <<0, 1>>]

(***************************************************************************)
(* trade_simulator.py: class StopLossConfig.                               *)
(***************************************************************************)
\* Variant: the buffer below a swing low is the 0.3% of a swing high.
BUFFER_BELOW_LOW_widened == <<3, 1000>>

BUFFER_BELOW_LOW == <<2, 1000>>
BUFFER_ABOVE_HIGH == <<3, 1000>>
StopLossConfig_MIN_RR_RATIO == <<1, 1>>

Direction(bias) == IF bias = "BULLISH" THEN "LONG" ELSE "SHORT"

calculate_stop_with_buffer(swing_price, direction) ==
    IF direction = "LONG"
    THEN Times(swing_price, OneMinus(BUFFER_BELOW_LOW))
    ELSE Times(swing_price, OnePlus(BUFFER_ABOVE_HIGH))

\* (|entry - stop| / entry) * 100 as an exact quotient.
calculate_distance_percent(entry_price, stop_price) ==
    <<Abs(entry_price - stop_price) * 100, entry_price>>

is_valid_stop(entry_price, stop_price) ==
    [valid |-> TRUE, distance |-> calculate_distance_percent(entry_price, stop_price)]

\* Variant: the comparisons of the two directions are exchanged.
is_stop_on_correct_side_reversed(entry_price, stop_price, direction) ==
    IF direction = "LONG" THEN stop_price > entry_price
    ELSE IF direction = "SHORT" THEN stop_price < entry_price
    ELSE FALSE

\* Variant: the side of the stop is not checked.
is_stop_on_correct_side_unchecked(entry_price, stop_price, direction) == TRUE

is_stop_on_correct_side(entry_price, stop_price, direction) ==
    IF direction = "LONG" THEN stop_price < entry_price
    ELSE IF direction = "SHORT" THEN stop_price > entry_price
    ELSE FALSE

calculate_minimum_take_profit(entry_price, stop_price, direction) ==
    LET stop_distance == Abs(entry_price - stop_price)
        target_distance == Times(stop_distance, StopLossConfig_MIN_RR_RATIO)
    IN  IF direction = "LONG" THEN entry_price + target_distance
        ELSE entry_price - target_distance

(***************************************************************************)
(* database/models.py: the pydantic models.  Constructing a model without  *)
(* one of its required fields, or with a value a validator rejects, raises *)
(* ValidationError.                                                        *)
(***************************************************************************)
StopLossResult_required ==
    {"price", "source", "swing_price", "swing_timestamp",
     "distance_percent", "minimum_take_profit", "valid"}

PositionSize_required ==
    {"btc", "usd", "risk_amount", "stop_distance", "stop_distance_percent"}

\* StopLossResult(**given)
StopLossResult(given) ==
    [exc |-> IF StopLossResult_required \subseteq DOMAIN given
             THEN "ok" ELSE "ValidationError",
     val |-> given]

\* A positive exact quotient.
QPositive(q) == (q[1] > 0 /\ q[2] > 0) \/ (q[1] < 0 /\ q[2] < 0)

\* A positive product quantity * price.
UsdPositive(u) ==
    \/ QPositive(u.quantity) /\ u.price > 0
    \/ QPositive(<<-u.quantity[1], u.quantity[2]>>) /\ u.price < 0

\* PositionSize(**given), with the validator must_be_positive.
PositionSize(given) ==
    [exc |-> IF /\ PositionSize_required \subseteq DOMAIN given
                /\ QPositive(given.btc)
                /\ UsdPositive(given.usd)
                /\ given.risk_amount > 0
                /\ given.stop_distance > 0
             THEN "ok" ELSE "ValidationError",
     val |-> given]

(***************************************************************************)
(* trade_simulator.py: position sizing, slippage, fee.                     *)
(***************************************************************************)
\* Variant: 2% of the balance is risked.
RiskFraction_doubled == <<2, 100>>

\* Decimal('0.01'), the literal of calculate_position_size.
RiskFraction == <<1, 100>>

NoPosition ==
    [btc |-> <<0, 1>>, usd |-> [quantity |-> <<0, 1>>, price |-> 0],
     risk_amount |-> 0, stop_distance |-> 0, stop_distance_percent |-> <<0, 1>>]

\* Variant: the check of line 323 is not made and the division of line 327
\* runs with whatever the stop distance is.
calculate_position_size_unguarded(account_balance, entry_price, stop_loss) ==
    IF account_balance <= 0 \/ entry_price <= 0 \/ stop_loss <= 0
    THEN [exc |-> "ValueError", val |-> NoPosition]
    ELSE
      LET risk_amount == Times(account_balance, RiskFraction)
          stop_distance == Abs(entry_price - stop_loss)
      IN  IF stop_distance = 0
          THEN [exc |-> "DivisionByZero", val |-> NoPosition]
          ELSE PositionSize(
                 [btc |-> <<risk_amount, stop_distance>>,
                  usd |-> [quantity |-> <<risk_amount, stop_distance>>,
                          price |-> entry_price],
                  risk_amount |-> risk_amount,
                  stop_distance |-> stop_distance,
                  stop_distance_percent |-> <<stop_distance * 100, entry_price>>])

calculate_position_size(account_balance, entry_price, stop_loss) ==
    IF account_balance <= 0 \/ entry_price <= 0 \/ stop_loss <= 0
    THEN [exc |-> "ValueError", val |-> NoPosition]
    ELSE
      LET risk_amount == Times(account_balance, RiskFraction)
          stop_distance == Abs(entry_price - stop_loss)
      IN  IF stop_distance = 0
          THEN [exc |-> "ValueError", val |-> NoPosition]
          ELSE PositionSize(
                 [btc |-> <<risk_amount, stop_distance>>,
                  usd |-> [quantity |-> <<risk_amount, stop_distance>>,
                          price |-> entry_price],
                  risk_amount |-> risk_amount,
                  stop_distance |-> stop_distance,
                  stop_distance_percent |-> <<stop_distance * 100, entry_price>>])

\* Variant of apply_slippage that adds the slippage in every case.
apply_slippage_always_up(price, direction, is_entry) ==
    LET slippage_percent == GetAttr(config, "FIXED_SLIPPAGE_PERCENT")
    IN  [exc |-> slippage_percent.exc,
         val |-> Times(price, OnePlus(slippage_percent.val))]

\* price * (1 +/- config.FIXED_SLIPPAGE_PERCENT)
apply_slippage(price, direction, is_entry) ==
    LET slippage_percent == GetAttr(config, "FIXED_SLIPPAGE_PERCENT")
        up == (is_entry /\ direction = "LONG") \/ (~is_entry /\ direction # "LONG")
    IN  [exc |-> slippage_percent.exc,
         val |-> IF up THEN Times(price, OnePlus(slippage_percent.val))
                 ELSE Times(price, OneMinus(slippage_percent.val))]

\* position_usd * config.FEE_PERCENT, as an exact quotient.
calculate_fee(position_usd) ==
    LET fee_percent == GetAttr(config, "FEE_PERCENT")
    IN  [exc |-> fee_percent.exc,
         val |-> IF fee_percent.exc # "ok" THEN <<0, 1>>
                 ELSE <<position_usd.quantity[1] * position_usd.price
                           * fee_percent.val[1],
                        position_usd.quantity[2] * fee_percent.val[2]>>]

(***************************************************************************)
(* trade_simulator.py, calculate_stop_loss: one swing attempt (the 5M      *)
(* block, lines 207-242, and the 4H block, lines 246-281, are the same     *)
(* code with another source).  swing_price = 0 stands for the empty list   *)
(* get_swing_levels returned.  The result's kind is                        *)
(*   "absent"  no active swing,                                            *)
(*   "invalid" the buffered stop is on the wrong side of entry,            *)
(*   "valid"   the buffered stop is accepted and StopLossResult(...) is    *)
(*             built from the five keyword arguments of the call; exc is   *)
(*             what that construction raises.                              *)
(***************************************************************************)
NoStop ==
    [price |-> 0, source |-> "None", swing_price |-> 0,
     distance_percent |-> <<0, 1>>, minimum_take_profit |-> 0]

TrySwing(entry_price, direction, swing_price, source) ==
    IF swing_price = 0
    THEN [kind |-> "absent", exc |-> "ok", val |-> NoStop]
    ELSE
      LET stop == calculate_stop_with_buffer(swing_price, direction)
          validation == is_valid_stop(entry_price, stop)
      IN  IF validation.valid /\ is_stop_on_correct_side(entry_price, stop, direction)
          THEN LET built == StopLossResult(
                     [price |-> stop,
                      source |-> source,
                      swing_price |-> swing_price,
                      distance_percent |-> validation.distance,
                      minimum_take_profit |->
                          calculate_minimum_take_profit(entry_price, stop, direction)])
               IN  [kind |-> "valid", exc |-> built.exc, val |-> built.val]
          ELSE [kind |-> "invalid", exc |-> "ok", val |-> NoStop]

(***************************************************************************)
(* database/queries.py: the paper_trades table and its statements.  A row  *)
(* is a record; NULL is 0 for a price, -1 for a time and "NULL" for a      *)
(* text column.  The table is a sequence of rows in insertion order and a  *)
(* row's id is its place in it.                                            *)
(***************************************************************************)
OpenRows(rows) == SelectSeq(rows, LAMBDA r : r.status = "OPEN")

get_open_positions(rows) == OpenRows(rows)

\* UPDATE paper_trades SET <updates> WHERE id = trade_id
update_paper_trade(rows, trade_id, updates) ==
    IF DOMAIN updates = {} THEN rows
    ELSE [i \in DOMAIN rows |->
            IF rows[i].id = trade_id
            THEN [f \in DOMAIN rows[i] |->
                    IF f \in DOMAIN updates THEN updates[f] ELSE rows[i][f]]
            ELSE rows[i]]

close_paper_trade(rows, trade_id, exit_price, pnl_usd, outcome, close_reason, utcnow) ==
    update_paper_trade(rows, trade_id,
        [status |-> "CLOSED", exit_price |-> exit_price, exit_time |-> utcnow,
         pnl_usd |-> pnl_usd, outcome |-> outcome, close_reason |-> close_reason])

activate_trailing_stop(rows, trade_id, trailing_price) ==
    update_paper_trade(rows, trade_id,
        [trailing_stop_activated |-> TRUE, trailing_stop_price |-> trailing_price])

\* INSERT INTO paper_trades (...) VALUES (..., 'OPEN', NOW()) RETURNING id
insert_paper_trade(rows, trade_data, utcnow) ==
    Append(rows,
        [id |-> Len(rows) + 1,
         confluence_id |-> trade_data.confluence_id,
         direction |-> trade_data.direction,
         entry_price |-> trade_data.entry_price,
         stop_loss |-> trade_data.stop_loss,
         take_profit |-> trade_data.take_profit,
         position_size_btc |-> trade_data.position_size_btc,
         position_size_usd |-> trade_data.position_size_usd,
         risk_amount_usd |-> trade_data.risk_amount_usd,
         risk_reward_ratio |-> trade_data.risk_reward_ratio,
         stop_loss_source |-> trade_data.stop_loss_source,
         status |-> "OPEN",
         entry_time |-> utcnow,
         trailing_stop_activated |-> FALSE,
         trailing_stop_price |-> 0,
         exit_price |-> 0,
         exit_time |-> -1,
         pnl_usd |-> <<0, 1>>,
         outcome |-> "NULL",
         close_reason |-> "NULL"])

\* The confluence ids paper_trades already holds.
TradedSignals(rows) == {rows[i].confluence_id : i \in DOMAIN rows}

(***************************************************************************)
(* trade_simulator.py, execute_paper_trade from step 3 on (lines 451-499): *)
(* what runs once calculate_stop_loss has returned a StopLossResult.       *)
(* balance = 0 stands for a missing paper_trading_config row.              *)
(* The result is the exception raised, or "ok" and the trade_data handed   *)
(* to insert_paper_trade.                                                  *)
(***************************************************************************)
NoTradeData ==
    [confluence_id |-> 0, direction |-> "NULL", entry_price |-> 0, stop_loss |-> 0,
     take_profit |-> 0, position_size_btc |-> <<0, 1>>,
     position_size_usd |-> [quantity |-> <<0, 1>>, price |-> 0],
     risk_amount_usd |-> 0, risk_reward_ratio |-> <<0, 1>>, stop_loss_source |-> "NULL"]

execute_paper_trade_from_step3(confluence_id, direction, price, stop_result, balance) ==
    LET position == calculate_position_size(balance, price,
                                            stop_result.price)
        entry_price_with_slippage == apply_slippage(price, direction, TRUE)
        position_usd == GetAttr(position.val, "position_usd")
        entry_fee == calculate_fee(position_usd.val)
        take_profit == stop_result.minimum_take_profit
        stop_distance == Abs(entry_price_with_slippage.val - stop_result.price)
        target_distance == Abs(take_profit - entry_price_with_slippage.val)
        Raise(e) == [exc |-> e, trade_data |-> NoTradeData]
    IN  IF balance = 0 THEN Raise("RuntimeError")
        ELSE IF position.exc # "ok" THEN Raise(position.exc)
        ELSE IF entry_price_with_slippage.exc # "ok"
             THEN Raise(entry_price_with_slippage.exc)
        ELSE IF position_usd.exc # "ok" THEN Raise(position_usd.exc)
        ELSE IF entry_fee.exc # "ok" THEN Raise(entry_fee.exc)
        ELSE IF stop_distance = 0 THEN Raise("DecimalException")
        ELSE [exc |-> "ok",
              trade_data |->
                [confluence_id |-> confluence_id,
                 direction |-> direction,
                 entry_price |-> entry_price_with_slippage.val,
                 stop_loss |-> stop_result.price,
                 take_profit |-> take_profit,
                 position_size_btc |-> position.val.btc,
                 position_size_usd |-> position.val.usd,
                 risk_amount_usd |-> position.val.risk_amount,
                 risk_reward_ratio |-> <<target_distance, stop_distance>>,
                 stop_loss_source |-> stop_result.source]]

(***************************************************************************)
(* position_manager.py: the exit conditions.  Times are in hours.          *)
(***************************************************************************)
max_trade_duration_hours == 72

\* Variant: trailing activates three quarters of the way to the target.
trailing_activation_percent_lowered == <<75, 100>>

trailing_activation_percent == <<80, 100>>

_is_stop_loss_hit(current_price, stop_price, direction) ==
    IF direction = "LONG" THEN current_price <= stop_price
    ELSE current_price >= stop_price

_is_take_profit_hit(current_price, tp_price, direction) ==
    IF direction = "LONG" THEN current_price >= tp_price
    ELSE current_price <= tp_price

\* current_progress / target_distance raises when the target distance is 0.
_should_activate_trailing_stop(entry_price, current_price, take_profit, direction) ==
    LET target_distance == Abs(take_profit - entry_price)
        current_progress == Abs(current_price - entry_price)
    IN  IF target_distance = 0
        THEN [exc |-> "DecimalException", val |-> FALSE]
        ELSE [exc |-> "ok",
              val |-> /\ current_progress * trailing_activation_percent[2]
                           >= trailing_activation_percent[1] * target_distance
                      /\ \/ direction = "LONG" /\ current_price > entry_price
                         \/ direction = "SHORT" /\ current_price < entry_price]

\* time_open > max_duration, at the instant utcnow
TimeLimitExceeded(entry_time, utcnow) == utcnow - entry_time > max_trade_duration_hours

\* effective_stop = trailing_price if trailing_activated else stop_loss
EffectiveStop(position) ==
    IF position.trailing_stop_activated THEN position.trailing_stop_price
    ELSE position.stop_loss

(***************************************************************************)
(* position_manager.py, _check_position (lines 87-145): what one call does *)
(* with the row `position` read at the start of the tick.  The result      *)
(* lists, in order, the awaited calls the function makes:                  *)
(*   [op |-> "close", reason, entry_price, target]  a call _close_position *)
(*   [op |-> "activate", price]                     activate_trailing_stop *)
(* (a 0 entry_price or target is the None the time-limit close passes),    *)
(* and exc is the exception the function raises itself, if any.            *)
(***************************************************************************)
CloseCall(reason, entry_price, target) ==
    [op |-> "close", reason |-> reason, entry_price |-> entry_price, price |-> target]

ActivateCall(price) ==
    [op |-> "activate", reason |-> "NULL", entry_price |-> 0, price |-> price]

\* Variant: no `return` after the time-limit close (line 104), so the stop
\* and target checks still run on that tick.
_check_position_fallthrough(position, current_price, utcnow) ==
    LET direction == position.direction
        entry_price == position.entry_price
        take_profit == position.take_profit
        trailing_activated == position.trailing_stop_activated
        effective_stop == EffectiveStop(position)
        time_limit == IF TimeLimitExceeded(position.entry_time, utcnow)
                      THEN <<CloseCall("TIME_LIMIT", 0, 0)>> ELSE <<>>
    IN  IF _is_stop_loss_hit(current_price, effective_stop, direction)
        THEN [exc |-> "ok",
              calls |-> time_limit \o
                        <<CloseCall(IF trailing_activated THEN "TRAILING_STOP"
                                    ELSE "STOP_LOSS", entry_price, effective_stop)>>]
        ELSE IF _is_take_profit_hit(current_price, take_profit, direction)
        THEN [exc |-> "ok",
              calls |-> time_limit \o <<CloseCall("TAKE_PROFIT", entry_price, take_profit)>>]
        ELSE [exc |-> "ok", calls |-> time_limit]

\* Variant: the activation check of line 134 is made without the guard
\* `if not trailing_activated`.
_check_position_reactivating(position, current_price, utcnow) ==
    LET direction == position.direction
        entry_price == position.entry_price
        take_profit == position.take_profit
        trailing_activated == position.trailing_stop_activated
        effective_stop == EffectiveStop(position)
        should_activate == _should_activate_trailing_stop(
                               entry_price, current_price, take_profit, direction)
    IN  IF TimeLimitExceeded(position.entry_time, utcnow)
        THEN [exc |-> "ok", calls |-> <<CloseCall("TIME_LIMIT", 0, 0)>>]
        ELSE IF _is_stop_loss_hit(current_price, effective_stop, direction)
        THEN [exc |-> "ok",
              calls |-> <<CloseCall(IF trailing_activated THEN "TRAILING_STOP"
                                    ELSE "STOP_LOSS", entry_price, effective_stop)>>]
        ELSE IF _is_take_profit_hit(current_price, take_profit, direction)
        THEN [exc |-> "ok", calls |-> <<CloseCall("TAKE_PROFIT", entry_price, take_profit)>>]
        ELSE IF should_activate.exc = "ok" /\ should_activate.val
        THEN [exc |-> "ok", calls |-> <<ActivateCall(entry_price)>>]
        ELSE [exc |-> "ok", calls |-> <<>>]

_check_position(position, current_price, utcnow) ==
    LET direction == position.direction
        entry_price == position.entry_price
        take_profit == position.take_profit
        trailing_activated == position.trailing_stop_activated
        effective_stop == EffectiveStop(position)
        should_activate == _should_activate_trailing_stop(
                               entry_price, current_price, take_profit, direction)
    IN  IF TimeLimitExceeded(position.entry_time, utcnow)
        THEN [exc |-> "ok", calls |-> <<CloseCall("TIME_LIMIT", 0, 0)>>]
        ELSE IF trailing_activated /\ effective_stop = 0
        THEN [exc |-> "TypeError", calls |-> <<>>]
        ELSE IF _is_stop_loss_hit(current_price, effective_stop, direction)
        THEN [exc |-> "ok",
              calls |-> <<CloseCall(IF trailing_activated THEN "TRAILING_STOP"
                                    ELSE "STOP_LOSS", entry_price, effective_stop)>>]
        ELSE IF _is_take_profit_hit(current_price, take_profit, direction)
        THEN [exc |-> "ok", calls |-> <<CloseCall("TAKE_PROFIT", entry_price, take_profit)>>]
        ELSE IF ~trailing_activated
        THEN IF should_activate.exc # "ok"
             THEN [exc |-> should_activate.exc, calls |-> <<>>]
             ELSE IF should_activate.val
             THEN [exc |-> "ok", calls |-> <<ActivateCall(entry_price)>>]
             ELSE [exc |-> "ok", calls |-> <<>>]
        ELSE [exc |-> "ok", calls |-> <<>>]

(***************************************************************************)
(* position_manager.py, _close_position (lines 270-333), from the answer   *)
(* of its get_open_positions() on: `open` is that answer.  The result is   *)
(* "not found" (the early return of line 282), the exception the try block *)
(* catches and logs, or "ok" and the table after close_paper_trade.        *)
(***************************************************************************)
\* a * b, a - b, a > b for exact quotients with positive denominators
QMul(a, b) == <<a[1] * b[1], a[2] * b[2]>>
QSub(a, b) == <<a[1] * b[2] - b[1] * a[2], a[2] * b[2]>>
QGreater(a, b) == a[1] * b[2] > b[1] * a[2]

_close_position(rows, open, trade_id, market_price, direction, entry_price, reason, now) ==
    LET exit_price_with_slippage == apply_slippage(market_price, direction, FALSE)
        found == SelectSeq(open, LAMBDA q : q.id = trade_id)
        position == found[1]
        entry == IF entry_price = 0 THEN position.entry_price ELSE entry_price
        exit_fee == calculate_fee(position.position_size_usd)
        price_diff == IF direction = "LONG"
                      THEN exit_price_with_slippage.val - entry
                      ELSE entry - exit_price_with_slippage.val
        gross_pnl == QMul(<<price_diff, 1>>, position.position_size_btc)
        net_pnl == QSub(gross_pnl, exit_fee.val)
        outcome == IF QGreater(net_pnl, <<10, 1>>) THEN "WIN"
                   ELSE IF QGreater(<<-10, 1>>, net_pnl) THEN "LOSS"
                   ELSE "BREAKEVEN"
        slippage_percent == GetAttr(config, "SLIPPAGE_PERCENT")
    IN  IF exit_price_with_slippage.exc # "ok"
        THEN [exc |-> exit_price_with_slippage.exc, rows |-> rows]
        ELSE IF found = <<>> THEN [exc |-> "not found", rows |-> rows]
        ELSE IF exit_fee.exc # "ok" THEN [exc |-> exit_fee.exc, rows |-> rows]
        ELSE IF slippage_percent.exc # "ok"
             THEN [exc |-> slippage_percent.exc, rows |-> rows]
        ELSE [exc |-> "ok",
              rows |-> close_paper_trade(rows, trade_id, exit_price_with_slippage.val,
                                         net_pnl, outcome, reason, now)]

(***************************************************************************)
(* The running system: the datastore, the clock, and the two asyncio tasks *)
(* main.py starts (SignalMonitor.poll_for_signals and                      *)
(* PositionManager.monitor_positions).  asyncio runs a task without        *)
(* interruption from one await to the next, so an action is the completion *)
(* of one awaited call together with the synchronous code that follows it. *)
(***************************************************************************)
VARIABLES
    paper_trades,        \* table paper_trades
    confluence_state,    \* ids of the confluence_state rows that are COMPLETE
    utcnow,              \* the clock, in hours
    sm_pc,               \* SignalMonitor: the await it is suspended at
    sm_signals,          \* SignalMonitor: the rest of the list `signals`
    _processed_signals,  \* SignalMonitor._processed_signals
    sm_trade,            \* execute_paper_trade: its locals
    sm_last,             \* the last call of execute_paper_trade that returned
    pm_pc,               \* PositionManager: the await it is suspended at
    pm_price,            \* monitor_positions: current_price
    pm_positions,        \* monitor_positions: open_positions
    pm_i,                \* monitor_positions: place of `position` in it
    pm_calls,            \* _check_position: awaited calls still to be made
    pm_tick,             \* the last call of _check_position
    activations,         \* per trade id, number of activate_trailing_stop calls
    current_balance,     \* Backtester.current_balance
    bt_call,             \* the last call of Backtester.execute_backtest_trade
    bt_monitor,          \* the last call of Backtester.monitor_backtest_trade
    candles_5m,          \* detect_5m_confluence: candles_5m up to the current candle
    start_index,         \* detect_5m_confluence: start_index
    cf_bias,             \* detect_5m_confluence: bias
    cf,                  \* detect_5m_confluence: the four stage results
    cf_returned,         \* detect_5m_confluence: "NULL" (running), "None", "COMPLETE"
    cf_detected,         \* the stages in the order their results were set or changed
    cf_timestamps,       \* detect_5m_confluence: candle['timestamp'] of each candle
    q_last,              \* the last datastore call made directly (outside the tasks)
    sizing,              \* the last direct call of calculate_position_size
    slipped,             \* the last direct call of apply_slippage
    df_4h,               \* the 4H frame the swing and sweep detectors are run on
    detected,            \* what each detector returned for df_4h
    feed_now,            \* the clock of the price feed, in ticks
    _last_price,         \* PriceFeed._last_price
    _last_fetch_time,    \* PriceFeed._last_fetch_time
    feed_calls,          \* per calling task, its call of get_current_price
    feed_returned,       \* per calling task, its last call and what it returned
    api_fetched,         \* the last two requests the API answered with a price
    run                  \* the call of Backtester.run_backtest

dbVars == <<paper_trades, confluence_state, utcnow>>
smVars == <<sm_pc, sm_signals, _processed_signals, sm_trade, sm_last>>
pmVars == <<pm_pc, pm_price, pm_positions, pm_i, pm_calls, pm_tick, activations>>
btVars == <<current_balance, bt_call, bt_monitor>>
\* What the two tasks of the running system leave alone.
cfVars == <<candles_5m, start_index, cf_bias, cf, cf_returned, cf_detected, cf_timestamps>>
qVars == <<q_last>>
szVars == <<sizing, slipped>>
biasVars == <<df_4h, detected>>
feedVars == <<feed_now, _last_price, _last_fetch_time, feed_calls, feed_returned, api_fetched>>
runVars == <<run>>
offlineVars == <<btVars, cfVars, qVars, szVars, biasVars, feedVars, runVars>>

\* Inputs of the model.
MaxSignals == 2
SignalIds == 1..MaxSignals
Bias(signal_id) == IF signal_id % 2 = 1 THEN "BULLISH" ELSE "BEARISH"
Prices == {Dec(88), Dec(92), Dec(100), Dec(108), Dec(112)}
SwingPrices == {0, Dec(95), Dec(105)}
Balances == {0, Dec(1000)}
Hours == {0, 72, 73}

\* A row found in paper_trades at start-up: an OPEN trade entered at hour 0
\* at 100 with its stop 10 away and its target 10 away.
StoredRow(direction) ==
    [id |-> 1, confluence_id |-> 0, direction |-> direction,
     entry_price |-> Dec(100),
     stop_loss |-> IF direction = "LONG" THEN Dec(90) ELSE Dec(110),
     take_profit |-> IF direction = "LONG" THEN Dec(110) ELSE Dec(90),
     position_size_btc |-> <<10, 1>>,
     position_size_usd |-> [quantity |-> <<10, 1>>, price |-> Dec(100)],
     risk_amount_usd |-> Dec(100), risk_reward_ratio |-> <<1, 1>>,
     stop_loss_source |-> "5M_SWING", status |-> "OPEN", entry_time |-> 0,
     trailing_stop_activated |-> FALSE, trailing_stop_price |-> 0,
     exit_price |-> 0, exit_time |-> -1, pnl_usd |-> <<0, 1>>,
     outcome |-> "NULL", close_reason |-> "NULL"]

\* A row found in paper_trades at start-up: an OPEN LONG trade entered at
\* hour 0 at 90000 with its target at 95000, and the prices the feed quotes
\* in that market.
ExampleRow ==
    [id |-> 1, confluence_id |-> 0, direction |-> "LONG",
     entry_price |-> Dec(90000), stop_loss |-> Dec(87300), take_profit |-> Dec(95000),
     position_size_btc |-> <<Dec(100), Dec(2700)>>,
     position_size_usd |-> [quantity |-> <<Dec(100), Dec(2700)>>, price |-> Dec(90000)],
     risk_amount_usd |-> Dec(100), risk_reward_ratio |-> <<50, 27>>,
     stop_loss_source |-> "5M_SWING", status |-> "OPEN", entry_time |-> 0,
     trailing_stop_activated |-> FALSE, trailing_stop_price |-> 0,
     exit_price |-> 0, exit_time |-> -1, pnl_usd |-> <<0, 1>>,
     outcome |-> "NULL", close_reason |-> "NULL"]

ExamplePrices == {Dec(89900), Dec(93800), Dec(94000)}

\* What price_feed.get_current_price can answer: prices of the market the
\* stored trade was entered in.
Quotes(rows) ==
    IF rows # <<>> /\ rows[1].entry_price = Dec(90000) THEN ExamplePrices ELSE Prices

\* A row found in paper_trades at start-up: the trade an earlier session
\* made from the confluence signal with the highest id, CLOSED since.
ClosedRow ==
    [StoredRow(Direction(Bias(MaxSignals))) EXCEPT
        !.confluence_id = MaxSignals, !.status = "CLOSED", !.exit_price = Dec(100),
        !.exit_time = 0, !.outcome = "BREAKEVEN", !.close_reason = "MANUAL"]

NoTrade == [confluence_id |-> 0, current_price |-> 0, swing_5m |-> 0]

NoAttempt ==
    [confluence_id |-> 0, direction |-> "NULL", current_price |-> 0,
     swing_5m |-> 0, swing_4h |-> 0, stop_result |-> "NULL", source |-> "NULL",
     stop_price |-> 0, exc |-> "NULL", trade_id |-> 0, open_before |-> 0,
     rows_before |-> 0, rows_after |-> 0]

NoTick ==
    [trade_id |-> 0, current_price |-> 0, time_open |-> 0, trailing_activated |-> FALSE,
     effective_stop |-> 0, closes |-> <<>>, activated |-> FALSE, done |-> FALSE]

InitSM ==
    /\ sm_pc = "poll"
    /\ sm_signals = <<>>
    /\ _processed_signals = {}
    /\ sm_trade = NoTrade
    /\ sm_last = NoAttempt

InitPM ==
    /\ pm_pc = "price"
    /\ pm_price = 0
    /\ pm_positions = <<>>
    /\ pm_i = 0
    /\ pm_calls = <<>>
    /\ pm_tick = NoTick
    /\ activations = [id \in 1..(MaxSignals + 1) |-> 0]

\* Backtester before its first call.
NoCall ==
    [bias |-> "NULL", entry_price |-> 0, swing_5m |-> 0, swing_4h |-> 0,
     returned |-> "NULL", exc |-> "NULL", reached |-> "NULL",
     stop_result |-> [price |-> 0, source |-> "NULL", swing_price |-> 0, min_tp |-> 0],
     position |-> NoPosition, entry_price_slipped |-> 0,
     stop_distance |-> 0, target_distance |-> 0]

\* No call of monitor_backtest_trade yet.
NoMonitor ==
    [called |-> FALSE, direction |-> "NULL", candles_5m |-> <<>>, exc |-> "NULL",
     trailing_activated |-> FALSE, activated_at |-> 0, trailing_stop |-> 0,
     exit_reason |-> "NULL", exit_index |-> 0, exit_price |-> 0]

\* None, for a stage result of detect_5m_confluence.
NoResult ==
    [found |-> FALSE, index |-> -1, price |-> 0, structure_level |-> 0,
     top |-> 0, bottom |-> 0, fill_price |-> 0]

NoStages ==
    [choch_result |-> NoResult, fvg_result |-> NoResult,
     fvg_fill_result |-> NoResult, bos_result |-> NoResult]

InitConfluenceIdle ==
    /\ candles_5m = <<>>
    /\ start_index = 0
    /\ cf_bias = "NULL"
    /\ cf = NoStages
    /\ cf_returned = "NULL"
    /\ cf_detected = <<>>
    /\ cf_timestamps = <<>>

\* The None of find_swing_level and of detect_liquidity_sweep_4h.
NoSwing == [found |-> FALSE, index |-> -1, price |-> 0]
NoSweep ==
    [found |-> FALSE, sweep_type |-> "NULL", bias |-> "NULL", price |-> 0,
     swing_idx |-> -1, timestamp |-> -1]

\* No frame loaded: what the detectors return for an empty one.
NoDetection ==
    [swings |-> [swing_high |-> {}, swing_low |-> {}],
     swing_levels |-> [swing_high |-> {}, swing_low |-> {}],
     sweeps |-> <<>>, frozen |-> <<>>, signals |-> <<>>, sweep_4h |-> <<>>,
     swing_level_high |-> NoSwing, swing_level_low |-> NoSwing]

\* No datastore call and no sizing call made yet.
NoQuery ==
    [op |-> "NULL", trade_id |-> 0, close_reason |-> "NULL", matched |-> 0,
     raised |-> "NULL", logged |-> "NULL", before |-> <<>>]

NoSizing ==
    [called |-> FALSE, account_balance |-> 0, entry_price |-> 0, stop_loss |-> 0,
     exc |-> "NULL", val |-> NoPosition]

\* The price feed after connect(), with no call of get_current_price yet.
Callers == {"monitor_positions", "execute_paper_trade"}
NoFeedCall == [pc |-> "idle", now |-> -1, wake |-> 0]
NoFetch == [caller |-> "NULL", started |-> -1, completed |-> -1]
NoFeedReturn ==
    [called_at |-> -1, returned_at |-> -1, cache_age |-> -1, cached |-> 0,
     requested |-> FALSE, exc |-> "NULL", price |-> 0]

InitFeedIdle ==
    /\ feed_now = 0
    /\ _last_price = 0
    /\ _last_fetch_time = -1
    /\ feed_calls = [c \in Callers |-> NoFeedCall]
    /\ feed_returned = [c \in Callers |-> NoFeedReturn]
    /\ api_fetched = <<NoFetch, NoFetch>>

\* No call of run_backtest.
NoRun ==
    [pc |-> "idle", candles_4h |-> <<>>, feed |-> [first |-> 0, len |-> 0],
     i4h |-> 0, current_5m_index |-> 0, open_position |-> "None",
     search |-> [i4h |-> -1, level |-> <<"NULL", -1>>, bias |-> "NULL",
                 candle_4h_time |-> -1, start |-> -1, end |-> -1,
                 returned |-> "NULL", bos |-> -1],
     abandoned |-> {},
     attempt |-> [i4h |-> -1, entry_index |-> -1, entry_time |-> -1,
                  returned |-> "NULL", reached |-> "NULL"],
     trades |-> <<>>]

NoSlippage ==
    [called |-> FALSE, price |-> 0, direction |-> "NULL", is_entry |-> FALSE,
     exc |-> "NULL", val |-> 0]

InitDirect ==
    /\ q_last = NoQuery
    /\ sizing = NoSizing
    /\ slipped = NoSlippage
    /\ df_4h = <<>>
    /\ detected = NoDetection
    /\ InitFeedIdle
    /\ run = NoRun

InitOffline ==
    /\ current_balance = 0
    /\ bt_call = NoCall
    /\ bt_monitor = NoMonitor
    /\ InitConfluenceIdle
    /\ InitDirect

Init ==
    /\ paper_trades \in {<<>>, <<StoredRow("LONG")>>, <<StoredRow("SHORT")>>,
                        <<ExampleRow>>, <<ClosedRow>>}
    /\ confluence_state = {}
    /\ utcnow = 0
    /\ InitSM
    /\ InitPM
    /\ InitOffline

(***************************************************************************)
(* Failures.  A query of database/queries.py re-raises what the driver     *)
(* raises when the datastore cannot answer: an awaited query ends "ok" or  *)
(* in PostgresError.  price_feed.get_current_price answers the last price  *)
(* it fetched when a fetch fails (lines 208-211), which is one of the      *)
(* quotes; it raises RuntimeError only while no fetch has succeeded since  *)
(* connect(), which SpecFeed covers: this specification is of the runs     *)
(* from the first cached price on.                                         *)
(* `except Exception` catches every class but those that derive from       *)
(* BaseException only; asyncio.CancelledError is one of these.             *)
(***************************************************************************)
\* Variant: the clause is `except ValueError`.
IsException_only_ValueError(e) == e = "ValueError"

IsException(e) == e # "CancelledError"

DatastoreOutcomes == {"ok", "PostgresError"}

(***************************************************************************)
(* The environment: the scanner marks a confluence COMPLETE; time passes;  *)
(* the operator stops the system.                                          *)
(***************************************************************************)
NewSignal ==
    /\ \E id \in SignalIds \ confluence_state :
         confluence_state' = confluence_state \cup {id}
    /\ UNCHANGED <<paper_trades, utcnow, smVars, pmVars>>
    /\ UNCHANGED offlineVars

ClockTick ==
    /\ \E t \in Hours : t > utcnow /\ utcnow' = t
    /\ UNCHANGED <<paper_trades, confluence_state, smVars, pmVars>>
    /\ UNCHANGED offlineVars

(***************************************************************************)
(* signal_monitor.py, SignalMonitor.poll_for_signals                       *)
(***************************************************************************)
\* Variant: two positions allowed at a time.
max_concurrent_positions_raised == 1 + 1

max_concurrent_positions == 1

\* Variant: the query has no NOT IN clause.
get_complete_confluence_signals_unfiltered(rows, complete) == complete

\* SELECT ... WHERE current_state = 'COMPLETE' AND id NOT IN (SELECT
\* confluence_id FROM paper_trades ...): the ids of the answer.
get_complete_confluence_signals(rows, complete) == complete \ TradedSignals(rows)

\* The orders a set of ids can be listed in.
Orderings(S) ==
    {q \in [1..Cardinality(S) -> S] : \A i, j \in 1..Cardinality(S) : i # j => q[i] # q[j]}

\* `if signal_id in self._processed_signals: continue`, for the head of the list
RECURSIVE SkipProcessed(_, _)
SkipProcessed(signals, processed) ==
    IF signals = <<>> THEN <<>>
    ELSE IF Head(signals) \in processed THEN SkipProcessed(Tail(signals), processed)
    ELSE signals

\* The loop `for signal in signals` from its top: it stops at the second
\* get_open_positions() or, the list exhausted, at the sleep.
ForSignal(signals, processed) ==
    LET rest == SkipProcessed(signals, processed)
    IN  /\ sm_signals' = rest
        /\ sm_pc' = IF rest = <<>> THEN "poll" ELSE "recheck"

\* An exception e reaches the try block of the loop (line 32): the except
\* clause of lines 78-80 logs it and sleeps, or, not caught there nor by
\* run() (line 124), it ends the task.
SM_Raise(e) ==
    /\ sm_pc' = IF IsException(e) THEN "except" ELSE "ended"
    /\ sm_signals' = <<>>
    /\ sm_trade' = NoTrade

\* lines 34-43: open_positions = await get_open_positions()
SM_Poll ==
    /\ sm_pc = "poll"
    /\ \E db \in DatastoreOutcomes :
         IF db # "ok" THEN SM_Raise(db)
         ELSE /\ sm_pc' = IF Len(get_open_positions(paper_trades))
                               >= max_concurrent_positions
                           THEN "poll" ELSE "signals"
              /\ UNCHANGED <<sm_signals, sm_trade>>
    /\ UNCHANGED <<_processed_signals, sm_last, dbVars, pmVars>>
    /\ UNCHANGED offlineVars

\* lines 46-54: signals = await get_complete_confluence_signals()
SM_Signals ==
    /\ sm_pc = "signals"
    /\ \E db \in DatastoreOutcomes :
         IF db # "ok" THEN SM_Raise(db)
         ELSE /\ \E signals \in Orderings(get_complete_confluence_signals(
                                            paper_trades, confluence_state)) :
                   ForSignal(signals, _processed_signals)
              /\ UNCHANGED sm_trade
    /\ UNCHANGED <<_processed_signals, sm_last, dbVars, pmVars>>
    /\ UNCHANGED offlineVars

\* line 80: await asyncio.sleep(self.poll_interval) in the except clause,
\* then the next pass of `while self.running`.
SM_Except ==
    /\ sm_pc = "except"
    /\ sm_pc' = "poll"
    /\ UNCHANGED <<sm_signals, _processed_signals, sm_trade, sm_last, dbVars, pmVars>>
    /\ UNCHANGED offlineVars

\* lines 59-67 and execute_paper_trade up to line 437: the second
\* get_open_positions(), then _process_signal starts the trade.
SM_Recheck ==
    /\ sm_pc = "recheck"
    /\ \E db \in DatastoreOutcomes :
         IF db # "ok" THEN SM_Raise(db)
         ELSE IF Len(get_open_positions(paper_trades)) >= max_concurrent_positions
         THEN /\ sm_pc' = "poll"
              /\ sm_signals' = <<>>
              /\ sm_trade' = NoTrade
         ELSE /\ sm_pc' = "price"
              /\ sm_signals' = sm_signals
              /\ sm_trade' = [NoTrade EXCEPT !.confluence_id = Head(sm_signals)]
    /\ UNCHANGED <<_processed_signals, sm_last, dbVars, pmVars>>
    /\ UNCHANGED offlineVars

\* line 437 and calculate_stop_loss up to line 206:
\* current_price = await price_feed.get_current_price()
SM_Price ==
    /\ sm_pc = "price"
    /\ \E price \in Quotes(paper_trades) :
         sm_trade' = [sm_trade EXCEPT !.current_price = price]
    /\ sm_pc' = "swing5m"
    /\ UNCHANGED <<sm_signals, _processed_signals, sm_last, dbVars, pmVars>>
    /\ UNCHANGED offlineVars

(***************************************************************************)
(* trade_simulator.py, execute_paper_trade: the call returns.  t is the    *)
(* swing attempt calculate_stop_loss ended with: a "valid" one, whose      *)
(* StopLossResult(...) construction either raises into the `except         *)
(* Exception` of line 512 or hands the result to steps 3 to 6, or the      *)
(* second "absent" or "invalid" one, after which calculate_stop_loss       *)
(* returns None (line 288).  account_balance is what get_paper_config()    *)
(* answers in step 3.  Back in poll_for_signals the signal is marked       *)
(* processed whatever the outcome (line 70) and the loop goes on.          *)
(***************************************************************************)
ExecutePaperTradeReturns(swing_5m, swing_4h, t, account_balance) ==
    LET confluence_id == sm_trade.confluence_id
        direction == Direction(Bias(confluence_id))
        has_result == t.kind = "valid" /\ t.exc = "ok"
        steps == IF has_result
                 THEN execute_paper_trade_from_step3(confluence_id, direction,
                          sm_trade.current_price, t.val, account_balance)
                 ELSE [exc |-> t.exc, trade_data |-> NoTradeData]
        inserted == has_result /\ steps.exc = "ok"
        rows == IF inserted THEN insert_paper_trade(paper_trades, steps.trade_data, utcnow)
                ELSE paper_trades
    IN  /\ paper_trades' = rows
        /\ sm_last' =
             [confluence_id |-> confluence_id,
              direction |-> direction,
              current_price |-> sm_trade.current_price,
              swing_5m |-> swing_5m,
              swing_4h |-> swing_4h,
              stop_result |-> IF t.kind # "valid" THEN "None"
                              ELSE IF t.exc # "ok" THEN "raise" ELSE "result",
              source |-> IF has_result THEN t.val.source ELSE "NULL",
              stop_price |-> IF has_result THEN t.val.price ELSE 0,
              exc |-> steps.exc,
              trade_id |-> IF inserted THEN Len(rows) ELSE 0,
              open_before |-> Len(OpenRows(paper_trades)),
              rows_before |-> Len(paper_trades),
              rows_after |-> Len(rows)]
        /\ _processed_signals' = _processed_signals \cup {confluence_id}
        /\ ForSignal(Tail(sm_signals), _processed_signals \cup {confluence_id})
        /\ sm_trade' = NoTrade

\* get_swing_levels raises e inside execute_paper_trade: the except clause
\* of line 512 logs it and the call returns None, after which line 70 marks
\* the signal processed as after any other return; an exception the clause
\* does not catch goes on to the loop.
ExecutePaperTradeRaises(e) ==
    LET confluence_id == sm_trade.confluence_id
    IN  /\ paper_trades' = paper_trades
        /\ IF IsException(e)
           THEN /\ sm_last' =
                     [NoAttempt EXCEPT
                        !.confluence_id = confluence_id,
                        !.direction = Direction(Bias(confluence_id)),
                        !.current_price = sm_trade.current_price,
                        !.exc = e,
                        !.open_before = Len(OpenRows(paper_trades)),
                        !.rows_before = Len(paper_trades),
                        !.rows_after = Len(paper_trades)]
                /\ _processed_signals' = _processed_signals \cup {confluence_id}
                /\ ForSignal(Tail(sm_signals), _processed_signals \cup {confluence_id})
                /\ sm_trade' = NoTrade
           ELSE /\ SM_Raise(e)
                /\ UNCHANGED <<sm_last, _processed_signals>>

\* calculate_stop_loss lines 206-242: swings_5m = await get_swing_levels('5M', ...)
SM_Swing5m ==
    /\ sm_pc = "swing5m"
    /\ \/ \E swing_5m \in SwingPrices, account_balance \in Balances :
            LET t == TrySwing(sm_trade.current_price,
                              Direction(Bias(sm_trade.confluence_id)), swing_5m,
                              "5M_SWING")
            IN  IF t.kind = "valid"
                THEN ExecutePaperTradeReturns(swing_5m, 0, t, account_balance)
                ELSE /\ sm_trade' = [sm_trade EXCEPT !.swing_5m = swing_5m]
                     /\ sm_pc' = "swing4h"
                     /\ UNCHANGED <<paper_trades, sm_signals, _processed_signals,
                                    sm_last>>
       \/ \E db \in DatastoreOutcomes \ {"ok"} : ExecutePaperTradeRaises(db)
    /\ UNCHANGED <<confluence_state, utcnow, pmVars>>
    /\ UNCHANGED offlineVars

\* calculate_stop_loss lines 245-288: swings_4h = await get_swing_levels('4H', ...)
SM_Swing4h ==
    /\ sm_pc = "swing4h"
    /\ \/ \E swing_4h \in SwingPrices, account_balance \in Balances :
            ExecutePaperTradeReturns(sm_trade.swing_5m, swing_4h,
                TrySwing(sm_trade.current_price,
                         Direction(Bias(sm_trade.confluence_id)), swing_4h, "4H_SWING"),
                account_balance)
       \/ \E db \in DatastoreOutcomes \ {"ok"} : ExecutePaperTradeRaises(db)
    /\ UNCHANGED <<confluence_state, utcnow, pmVars>>
    /\ UNCHANGED offlineVars

SignalMonitor ==
    SM_Poll \/ SM_Signals \/ SM_Recheck \/ SM_Price \/ SM_Swing5m \/ SM_Swing4h
    \/ SM_Except

(***************************************************************************)
(* position_manager.py, PositionManager.monitor_positions                  *)
(***************************************************************************)
\* The number of activate_trailing_stop calls is counted up to this.
MaxCounted == 2

\* The loop `for position in open_positions` moves on, or the tick ends in
\* the sleep of line 67.
NextPosition ==
    IF pm_i < Len(pm_positions)
    THEN /\ pm_i' = pm_i + 1
         /\ pm_pc' = "check"
         /\ UNCHANGED <<pm_price, pm_positions>>
    ELSE /\ pm_i' = 0
         /\ pm_pc' = "price"
         /\ pm_price' = 0
         /\ pm_positions' = <<>>

\* An exception e reaches the try block of the loop (line 48): the except
\* clause of lines 69-71 logs it and sleeps, or, not caught there nor by
\* run(), it ends the task.
PM_Raise(e) ==
    /\ pm_pc' = IF IsException(e) THEN "except" ELSE "ended"
    /\ pm_price' = 0
    /\ pm_positions' = <<>>
    /\ pm_i' = 0

\* line 71: await asyncio.sleep(self.check_interval) in the except clause,
\* then the next pass of `while self.running`.
PM_Except ==
    /\ pm_pc = "except"
    /\ pm_pc' = "price"
    /\ UNCHANGED <<pm_price, pm_positions, pm_i, pm_calls, pm_tick, activations,
                   dbVars, smVars>>
    /\ UNCHANGED offlineVars

\* line 50: current_price = await price_feed.get_current_price(use_cache=True)
PM_Price ==
    /\ pm_pc = "price"
    /\ \E price \in Quotes(paper_trades) : pm_price' = price
    /\ pm_pc' = "open"
    /\ UNCHANGED <<pm_positions, pm_i, pm_calls, pm_tick, activations, dbVars, smVars>>
    /\ UNCHANGED offlineVars

\* lines 53-63: open_positions = await get_open_positions()
PM_Open ==
    /\ pm_pc = "open"
    /\ \E db \in DatastoreOutcomes :
         LET open_positions == get_open_positions(paper_trades)
         IN  IF db # "ok" THEN PM_Raise(db)
             ELSE IF open_positions = <<>>
             THEN /\ pm_pc' = "price"
                  /\ pm_price' = 0
                  /\ UNCHANGED <<pm_positions, pm_i>>
             ELSE /\ pm_pc' = "check"
                  /\ pm_positions' = open_positions
                  /\ pm_i' = 1
                  /\ UNCHANGED pm_price
    /\ UNCHANGED <<pm_calls, pm_tick, activations, dbVars, smVars>>
    /\ UNCHANGED offlineVars

\* line 64 and _check_position up to its first awaited call: the checks are
\* made on the row as it was read by line 53, at the instant utcnow.
PM_Check ==
    /\ pm_pc = "check"
    /\ LET position == pm_positions[pm_i]
           checked == _check_position(position, pm_price, utcnow)
       IN  /\ pm_tick' =
                [trade_id |-> position.id,
                 current_price |-> pm_price,
                 time_open |-> utcnow - position.entry_time,
                 trailing_activated |-> position.trailing_stop_activated,
                 effective_stop |-> EffectiveStop(position),
                 closes |-> <<>>,
                 activated |-> FALSE,
                 done |-> checked.exc = "ok" /\ checked.calls = <<>>]
           /\ pm_calls' = checked.calls
           /\ IF checked.exc # "ok" THEN PM_Raise(checked.exc)
              ELSE IF checked.calls = <<>>
              THEN NextPosition
              ELSE /\ pm_pc' = "calls"
                   /\ UNCHANGED <<pm_price, pm_positions, pm_i>>
    /\ UNCHANGED <<activations, dbVars, smVars>>
    /\ UNCHANGED offlineVars

\* The awaited call returned: _check_position makes its next one or returns.
AfterCall ==
    /\ pm_calls' = Tail(pm_calls)
    /\ IF Tail(pm_calls) = <<>>
       THEN NextPosition
       ELSE UNCHANGED <<pm_pc, pm_price, pm_positions, pm_i>>

\* _close_position from line 277 on: positions = await get_open_positions()
PM_Close ==
    /\ pm_pc = "calls"
    /\ Head(pm_calls).op = "close"
    /\ \E db \in DatastoreOutcomes :
       LET call == Head(pm_calls)
           position == pm_positions[pm_i]
           closed == IF db # "ok" THEN [exc |-> db, rows |-> paper_trades]
                     ELSE _close_position(paper_trades,
                              get_open_positions(paper_trades), position.id, pm_price,
                              position.direction, call.entry_price, call.reason, utcnow)
       IN  /\ paper_trades' = closed.rows
           /\ pm_tick' = [pm_tick EXCEPT !.closes = Append(@, call.reason),
                                         !.done = Tail(pm_calls) = <<>>]
    /\ AfterCall
    /\ UNCHANGED <<activations, confluence_state, utcnow, smVars>>
    /\ UNCHANGED offlineVars

\* line 141: await activate_trailing_stop(trade_id, entry_price)
PM_Activate ==
    /\ pm_pc = "calls"
    /\ Head(pm_calls).op = "activate"
    /\ \E db \in DatastoreOutcomes :
       LET call == Head(pm_calls)
           trade_id == pm_positions[pm_i].id
       IN  IF db # "ok"
           THEN /\ PM_Raise(db)
                /\ pm_calls' = <<>>
                /\ UNCHANGED <<paper_trades, activations, pm_tick>>
           ELSE /\ paper_trades' =
                     activate_trailing_stop(paper_trades, trade_id, call.price)
                /\ activations' =
                     [activations EXCEPT ![trade_id] =
                                            IF @ < MaxCounted THEN @ + 1 ELSE @]
                /\ pm_tick' = [pm_tick EXCEPT !.activated = TRUE,
                                              !.done = Tail(pm_calls) = <<>>]
                /\ AfterCall
    /\ UNCHANGED <<confluence_state, utcnow, smVars>>
    /\ UNCHANGED offlineVars

PositionManager ==
    PM_Price \/ PM_Open \/ PM_Check \/ PM_Close \/ PM_Activate \/ PM_Except

(***************************************************************************)
(* main.py, PaperTradingSystem.shutdown (lines 66-99): stop() on both      *)
(* monitors and task.cancel() on both tasks, with no await in between.     *)
(* Each task is suspended at an await when shutdown runs; cancel() throws  *)
(* CancelledError into it there, and the task ends where it is unless an   *)
(* except clause on the way out catches the exception.  Neither task gets  *)
(* to test self.running again.                                             *)
(***************************************************************************)
Shutdown ==
    /\ sm_pc \notin {"cancelled", "ended"}
    /\ pm_pc \notin {"cancelled", "ended"}
    /\ ~IsException("CancelledError")
    /\ sm_pc' = "cancelled"
    /\ pm_pc' = "cancelled"
    /\ UNCHANGED <<sm_signals, _processed_signals, sm_trade, sm_last>>
    /\ UNCHANGED <<pm_price, pm_positions, pm_i, pm_calls, pm_tick, activations>>
    /\ UNCHANGED dbVars
    /\ UNCHANGED offlineVars

Next == NewSignal \/ ClockTick \/ SignalMonitor \/ PositionManager \/ Shutdown

vars == <<dbVars, smVars, pmVars, offlineVars>>

Spec == Init /\ [][Next]_vars

(***************************************************************************)
(* backtest.py, Backtester.execute_backtest_trade (lines 607-724).  The    *)
(* swing prices are what find_swing_level answers for the 5M and the 4H    *)
(* candles (0: None).  The result records how the call ended ("None": the  *)
(* rejection of line 682; "raise": an exception leaves the function;       *)
(* "trade": the dict of line 700 is returned), the last statement reached, *)
(* and the locals as they stood there.                                     *)
(***************************************************************************)
\* lines 637-654 and 658-675: one swing attempt; the result is a dict.
BacktestSwing(entry_price, direction, swing, source) ==
    LET stop_price == calculate_stop_with_buffer(swing, direction)
        validation == is_valid_stop(entry_price, stop_price)
    IN  IF swing # 0 /\ validation.valid
           /\ is_stop_on_correct_side(entry_price, stop_price, direction)
        THEN [found |-> TRUE,
              val |-> [price |-> stop_price, source |-> source, swing_price |-> swing,
                       min_tp |-> calculate_minimum_take_profit(entry_price, stop_price,
                                                                direction)]]
        ELSE [found |-> FALSE, val |-> NoCall.stop_result]

execute_backtest_trade(balance, bias, entry_price, swing_5m, swing_4h) ==
    LET direction == Direction(bias)
        from_5m == BacktestSwing(entry_price, direction, swing_5m, "5M_SWING")
        from_4h == BacktestSwing(entry_price, direction, swing_4h, "4H_SWING")
        stop_result == IF from_5m.found THEN from_5m ELSE from_4h
        position == calculate_position_size(balance, entry_price, stop_result.val.price)
        entry_price_slipped == apply_slippage(entry_price, direction, TRUE)
        entry_fee == calculate_fee(position.val.usd)
        stop_distance == Abs(entry_price_slipped.val - stop_result.val.price)
        target_distance == Abs(stop_result.val.min_tp - entry_price_slipped.val)
        call == [NoCall EXCEPT !.bias = bias, !.entry_price = entry_price,
                               !.swing_5m = swing_5m,
                               !.swing_4h = IF from_5m.found THEN 0 ELSE swing_4h]
        with_stop == [call EXCEPT !.stop_result = stop_result.val]
        with_position == [with_stop EXCEPT !.position = position.val]
        with_entry == [with_position EXCEPT
                          !.entry_price_slipped = entry_price_slipped.val,
                          !.stop_distance = stop_distance,
                          !.target_distance = target_distance]
        Ends(locals, returned, exc, reached) ==
            [locals EXCEPT !.returned = returned, !.exc = exc, !.reached = reached]
    IN  IF ~stop_result.found THEN Ends(call, "None", "ok", "reject")
        ELSE IF position.exc # "ok"
             THEN Ends(with_stop, "raise", position.exc, "calculate_position_size")
        ELSE IF entry_price_slipped.exc # "ok"
             THEN Ends(with_position, "raise", entry_price_slipped.exc, "apply_slippage")
        ELSE IF entry_fee.exc # "ok"
             THEN Ends(with_entry, "raise", entry_fee.exc, "calculate_fee")
        ELSE IF stop_distance = 0
             THEN Ends(with_entry, "raise", "DecimalException", "rr_ratio")
        ELSE Ends(with_entry, "trade", "ok", "return")

StartingBalances == {0, Dec(100), Dec(1000), Dec(10000)}

\* entry price, 5M swing and 4H swing of a call: the prices of the running
\* system, and an entry at 90000 with its 5M swing low at 87480.
BacktestInputs ==
    (Prices \X SwingPrices \X SwingPrices) \cup {<<Dec(90000), Dec(87480), 0>>}

InitBacktest ==
    /\ paper_trades = <<>>
    /\ confluence_state = {}
    /\ utcnow = 0
    /\ InitSM
    /\ InitPM
    /\ current_balance \in StartingBalances
    /\ bt_call = NoCall
    /\ bt_monitor = NoMonitor
    /\ InitConfluenceIdle
    /\ InitDirect

\* One call of execute_backtest_trade, as run_backtest makes it (line 950).
BT_Execute ==
    /\ \E bias \in {"BULLISH", "BEARISH"}, in \in BacktestInputs :
         bt_call' = execute_backtest_trade(current_balance, bias, in[1], in[2], in[3])
    /\ UNCHANGED <<current_balance, bt_monitor>>
    /\ UNCHANGED <<cfVars, qVars, szVars, biasVars, feedVars, runVars, dbVars, smVars, pmVars>>

(***************************************************************************)
(* backtest.py, Backtester.monitor_backtest_trade (lines 726-803).         *)
(* candles_5m[start_index] is the entry candle; rows are counted from 1.   *)
(* The result records the locals at the call of _close_backtest_trade      *)
(* (exit_reason, the row and the price of the exit), the row on which      *)
(* trailing_activated was set (0: never), and how the call ended:          *)
(* _close_backtest_trade calls calculate_fee (line 816) before it builds   *)
(* the BacktestTrade.                                                      *)
(***************************************************************************)
\* A candle: the columns of a row of candles_5m or candles_4h that are read.
Candle(low, high, close) == [low |-> low, high |-> high, close |-> close]

max_duration_candles == (72 * 60) \div 5

\* lines 755-793: the body of the loop for one candle.
MonitorCandle(trade, candle, trailing_activated) ==
    LET target_distance == Abs(trade.take_profit - trade.entry_price)
        activates == /\ ~trailing_activated
                     /\ Abs(candle.close - trade.entry_price) * 100 >= 80 * target_distance
        now_trailing == trailing_activated \/ activates
        effective_stop == IF now_trailing THEN trade.entry_price ELSE trade.stop_loss
        stop_hit == IF trade.direction = "LONG" THEN candle.low <= effective_stop
                    ELSE candle.high >= effective_stop
        tp_hit == IF trade.direction = "LONG" THEN candle.high >= trade.take_profit
                  ELSE candle.low <= trade.take_profit
    IN  IF ~trailing_activated /\ target_distance = 0
        THEN [exc |-> "DecimalException", activates |-> FALSE,
              exit_reason |-> "NULL", exit_price |-> 0]
        ELSE [exc |-> "ok",
              activates |-> activates,
              exit_reason |-> IF stop_hit
                              THEN (IF now_trailing THEN "TRAILING_STOP" ELSE "STOP_LOSS")
                              ELSE IF tp_hit THEN "TAKE_PROFIT" ELSE "NULL",
              exit_price |-> IF stop_hit THEN effective_stop
                             ELSE IF tp_hit THEN trade.take_profit ELSE 0]

\* lines 806-816: the call of _close_backtest_trade, up to calculate_fee.
CloseRequested(trade, so_far, exit_index, exit_price, exit_reason) ==
    LET exit_price_slipped == apply_slippage(exit_price, trade.direction, FALSE)
        exit_fee == calculate_fee(trade.position_size_usd)
    IN  [so_far EXCEPT !.exit_reason = exit_reason, !.exit_index = exit_index,
                       !.exit_price = exit_price,
                       !.exc = IF exit_price_slipped.exc # "ok" THEN exit_price_slipped.exc
                               ELSE exit_fee.exc]

RECURSIVE MonitorLoop(_, _, _, _, _)
MonitorLoop(trade, candles, start, i, so_far) ==
    LET last == IF start + max_duration_candles - 1 < Len(candles)
                THEN start + max_duration_candles - 1 ELSE Len(candles)
    IN  IF i > last
        THEN CloseRequested(trade, so_far, last, candles[last].close, "TIME_LIMIT")
        ELSE LET step == MonitorCandle(trade, candles[i], so_far.trailing_activated)
                 next == IF step.activates
                         THEN [so_far EXCEPT !.trailing_activated = TRUE,
                                             !.activated_at = i,
                                             !.trailing_stop = trade.entry_price]
                         ELSE so_far
             IN  IF step.exc # "ok" THEN [so_far EXCEPT !.exc = step.exc]
                 ELSE IF step.exit_reason # "NULL"
                 THEN CloseRequested(trade, next, i, step.exit_price, step.exit_reason)
                 ELSE MonitorLoop(trade, candles, start, i + 1, next)

monitor_backtest_trade(trade, candles, start) ==
    MonitorLoop(trade, candles, start, start + 1,
                [NoMonitor EXCEPT !.called = TRUE, !.direction = trade.direction,
                                  !.candles_5m = candles])

\* The candles that follow the entry candle: none of them, or up to
\* MaxMonitored candles that close 8 or 12 beyond the entry on either side,
\* or 2 above it.
MaxMonitored == 3
MonitoredCandles ==
    {Candle(Dec(104), Dec(108), Dec(108)), Candle(Dec(92), Dec(96), Dec(92)),
     Candle(Dec(104), Dec(112), Dec(112)), Candle(Dec(88), Dec(96), Dec(88)),
     Candle(Dec(101), Dec(103), Dec(102))}
EntryCandle == Candle(Dec(99), Dec(101), Dec(100))

\* One call of monitor_backtest_trade, as run_backtest makes it (line 962),
\* for a trade entered at 100 with its stop and its target 10 away, on the
\* candles monitored so far and one more.
BT_Monitor ==
    /\ Len(bt_monitor.candles_5m) <= MaxMonitored
    /\ \E direction \in {"LONG", "SHORT"}, candle \in MonitoredCandles :
         /\ bt_monitor.called => direction = bt_monitor.direction
         /\ bt_monitor' =
               monitor_backtest_trade(StoredRow(direction),
                   IF bt_monitor.called THEN Append(bt_monitor.candles_5m, candle)
                   ELSE <<EntryCandle>>, 1)
    /\ UNCHANGED <<current_balance, bt_call>>
    /\ UNCHANGED <<cfVars, qVars, szVars, biasVars, feedVars, runVars, dbVars, smVars, pmVars>>

NextBacktest == BT_Execute

SpecBacktest == InitBacktest /\ [][NextBacktest]_vars

InitMonitor ==
    /\ paper_trades = <<>>
    /\ confluence_state = {}
    /\ utcnow = 0
    /\ InitSM
    /\ InitPM
    /\ InitOffline

NextMonitor == BT_Monitor

SpecMonitor == InitMonitor /\ [][NextMonitor]_vars

(***************************************************************************)
(* backtest.py: the 5M pattern detectors.  A candle is a record            *)
(* [low, high, close]; candles_5m[i] of the code is At(candles, i); a      *)
(* candle's timestamp is its index.  A detector's result is a record with  *)
(* found = TRUE and the keys of the dict the code returns, or NoResult.    *)
(***************************************************************************)
At(candles, i) == candles[i + 1]

SetMax(S) == CHOOSE x \in S : \A y \in S : y <= x
SetMin(S) == CHOOSE x \in S : \A y \in S : x <= y

LOOKBACK_PERIOD == 5
BREAK_THRESHOLD == <<1, 1000>>
MIN_GAP_PERCENT == <<1, 1000>>
BOS_LOOKBACK == 20

detect_choch(candles, current_index, bias) ==
    IF current_index < LOOKBACK_PERIOD THEN NoResult
    ELSE
      LET current_close == At(candles, current_index).close
          recent == (current_index - LOOKBACK_PERIOD)..(current_index - 1)
          max_recent_high == SetMax({At(candles, i).high : i \in recent})
          min_recent_low == SetMin({At(candles, i).low : i \in recent})
      IN  IF /\ bias = "BULLISH"
             /\ current_close * BREAK_THRESHOLD[2]
                  > max_recent_high * (BREAK_THRESHOLD[2] + BREAK_THRESHOLD[1])
          THEN [NoResult EXCEPT !.found = TRUE, !.index = current_index,
                                !.price = current_close,
                                !.structure_level = max_recent_high]
          ELSE IF /\ bias = "BEARISH"
                  /\ current_close * BREAK_THRESHOLD[2]
                       < min_recent_low * (BREAK_THRESHOLD[2] - BREAK_THRESHOLD[1])
          THEN [NoResult EXCEPT !.found = TRUE, !.index = current_index,
                                !.price = current_close,
                                !.structure_level = min_recent_low]
          ELSE NoResult

detect_fvg(candles, current_index, bias) ==
    IF current_index < 2 THEN NoResult
    ELSE
      LET c1 == At(candles, current_index - 2)
          c3 == At(candles, current_index)
          current_price == c3.close
      IN  IF /\ bias = "BULLISH"
             /\ c3.low > c1.high
             /\ (c3.low - c1.high) * MIN_GAP_PERCENT[2] >= MIN_GAP_PERCENT[1] * current_price
          THEN [NoResult EXCEPT !.found = TRUE, !.index = current_index,
                                !.top = c3.low, !.bottom = c1.high]
          ELSE IF /\ bias = "BEARISH"
                  /\ c3.high < c1.low
                  /\ (c1.low - c3.high) * MIN_GAP_PERCENT[2]
                       >= MIN_GAP_PERCENT[1] * current_price
          THEN [NoResult EXCEPT !.found = TRUE, !.index = current_index,
                                !.top = c1.low, !.bottom = c3.high]
          ELSE NoResult

\* `index` is the place of `candle`, the source of the result's timestamp.
detect_fvg_fill(candle, index, fvg_zone, bias) ==
    IF ~fvg_zone.found THEN NoResult
    ELSE IF /\ bias = "BULLISH"
            /\ candle.low <= fvg_zone.top
            /\ candle.low >= fvg_zone.bottom
    THEN [NoResult EXCEPT !.found = TRUE, !.index = index, !.fill_price = candle.low]
    ELSE IF /\ bias = "BEARISH"
            /\ candle.high >= fvg_zone.bottom
            /\ candle.high <= fvg_zone.top
    THEN [NoResult EXCEPT !.found = TRUE, !.index = index, !.fill_price = candle.high]
    ELSE NoResult

detect_bos(candles, current_index, bias) ==
    IF current_index < 3 THEN NoResult
    ELSE
      LET current_close == At(candles, current_index).close
          lookback == IF BOS_LOOKBACK < current_index - 2 THEN BOS_LOOKBACK
                      ELSE current_index - 2
          \* range(current_index - 1, current_index - lookback, -1), cut at i < 1
          searched == {i \in (current_index - lookback + 1)..(current_index - 1) : i >= 1}
          swing_highs == {i \in searched :
                            /\ At(candles, i).high > At(candles, i - 1).high
                            /\ At(candles, i).high > At(candles, i + 1).high}
          swing_lows == {i \in searched :
                           /\ At(candles, i).low < At(candles, i - 1).low
                           /\ At(candles, i).low < At(candles, i + 1).low}
      IN  IF /\ bias = "BULLISH"
             /\ swing_highs # {}
             /\ current_close > At(candles, SetMax(swing_highs)).high
          THEN [NoResult EXCEPT !.found = TRUE, !.index = current_index,
                                !.price = current_close,
                                !.structure_level = At(candles, SetMax(swing_highs)).high]
          ELSE IF /\ bias = "BEARISH"
                  /\ swing_lows # {}
                  /\ current_close < At(candles, SetMax(swing_lows)).low
          THEN [NoResult EXCEPT !.found = TRUE, !.index = current_index,
                                !.price = current_close,
                                !.structure_level = At(candles, SetMax(swing_lows)).low]
          ELSE NoResult

(***************************************************************************)
(* backtest.py, Backtester.detect_5m_confluence (lines 476-561).           *)
(***************************************************************************)
\* Variant of the loop body: the FVG branch is guarded by `not
\* fvg_fill_result` instead of `not fvg_result`, so detect_fvg runs again on
\* the candles after the gap was found.
ConfluenceCandle_fvg_again(candles, i, bias, st) ==
    IF ~st.choch_result.found
    THEN [st EXCEPT !.choch_result = detect_choch(candles, i, bias)]
    ELSE IF st.choch_result.found /\ ~st.fvg_fill_result.found
    THEN [st EXCEPT !.fvg_result = detect_fvg(candles, i, bias)]
    ELSE st

\* Variant of the loop body: the branches do not end in `continue`, so a
\* candle that sets one stage result is offered to the next detector too.
ConfluenceCandle_no_continue(candles, i, bias, st) ==
    LET s1 == IF ~st.choch_result.found
              THEN [st EXCEPT !.choch_result = detect_choch(candles, i, bias)] ELSE st
        s2 == IF s1.choch_result.found /\ ~s1.fvg_result.found
              THEN [s1 EXCEPT !.fvg_result = detect_fvg(candles, i, bias)] ELSE s1
        s3 == IF s2.fvg_result.found /\ ~s2.fvg_fill_result.found
              THEN [s2 EXCEPT !.fvg_fill_result =
                                 detect_fvg_fill(At(candles, i), i, s2.fvg_result, bias)]
              ELSE s2
    IN  IF s3.fvg_fill_result.found /\ ~s3.bos_result.found
        THEN [s3 EXCEPT !.bos_result = detect_bos(candles, i, bias)] ELSE s3

\* The loop body (lines 513-556) for the candle at index i: the stage
\* results after it.  Every branch but the last ends in `continue`.
ConfluenceCandle(candles, i, bias, st) ==
    IF ~st.choch_result.found
    THEN [st EXCEPT !.choch_result = detect_choch(candles, i, bias)]
    ELSE IF st.choch_result.found /\ ~st.fvg_result.found
    THEN [st EXCEPT !.fvg_result = detect_fvg(candles, i, bias)]
    ELSE IF st.fvg_result.found /\ ~st.fvg_fill_result.found
    THEN [st EXCEPT !.fvg_fill_result =
                       detect_fvg_fill(At(candles, i), i, st.fvg_result, bias)]
    ELSE IF st.fvg_fill_result.found /\ ~st.bos_result.found
    THEN [st EXCEPT !.bos_result = detect_bos(candles, i, bias)]
    ELSE st

\* The stages whose result differs between two stage records, in stage order.
Changed(old, new) ==
    (IF new.choch_result # old.choch_result THEN <<"CHOCH">> ELSE <<>>)
    \o (IF new.fvg_result # old.fvg_result THEN <<"FVG">> ELSE <<>>)
    \o (IF new.fvg_fill_result # old.fvg_fill_result THEN <<"FVG_FILL">> ELSE <<>>)
    \o (IF new.bos_result # old.bos_result THEN <<"BOS">> ELSE <<>>)

\* Inputs: the candles of a rising market and, mirrored, of a falling one.
MaxWindow == 5
Mirror(c) == Candle(200 - c.high, 200 - c.low, 200 - c.close)
FlatCandles == {Candle(100, 101, 100), Candle(101, 103, 103)}
RisingCandles == FlatCandles \cup {Candle(104, 106, 105), Candle(104, 108, 107)}
HistoryCandles(bias) ==
    IF bias = "BULLISH" THEN FlatCandles ELSE {Mirror(c) : c \in FlatCandles}
WindowCandles(bias) ==
    IF bias = "BULLISH" THEN RisingCandles ELSE {Mirror(c) : c \in RisingCandles}

\* The 'timestamp' column of a candle list of n rows, in units of one candle
\* period: as run_backtest's query orders it (ORDER BY timestamp ASC, line
\* 890), or the same rows in the opposite order.
TimestampColumns(n) == {[i \in 1..n |-> i], [i \in 1..n |-> n + MaxWindow + 1 - i]}
\* The timestamp of the row that follows the rows of column ts.
NextTimestamp(ts) == ts[Len(ts)] + (ts[Len(ts)] - ts[Len(ts) - 1])

\* A call detect_5m_confluence(candles_5m, start_index, end_index, bias) with
\* start_index candles of history before the window.
InitConfluence ==
    /\ paper_trades = <<>>
    /\ confluence_state = {}
    /\ utcnow = 0
    /\ InitSM
    /\ InitPM
    /\ current_balance = 0
    /\ bt_call = NoCall
    /\ bt_monitor = NoMonitor
    /\ cf_bias \in {"BULLISH", "BEARISH"}
    /\ start_index \in {LOOKBACK_PERIOD - 1, LOOKBACK_PERIOD}
    /\ candles_5m \in [1..start_index -> HistoryCandles(cf_bias)]
    /\ cf = NoStages
    /\ cf_returned = "NULL"
    /\ cf_detected = <<>>
    /\ cf_timestamps \in TimestampColumns(start_index)
    /\ InitDirect

\* One pass of the loop of line 512, for the next candle of the window.
CF_Candle ==
    /\ cf_returned = "NULL"
    /\ Len(candles_5m) - start_index < MaxWindow
    /\ \E candle \in WindowCandles(cf_bias) :
         LET candles == Append(candles_5m, candle)
             i == Len(candles_5m)
             st == ConfluenceCandle(candles, i, cf_bias, cf)
         IN  /\ candles_5m' = candles
             /\ cf' = st
             /\ cf_detected' = cf_detected \o Changed(cf, st)
             /\ cf_timestamps' = Append(cf_timestamps, NextTimestamp(cf_timestamps))
             /\ cf_returned' = IF st.bos_result.found THEN "COMPLETE" ELSE "NULL"
    /\ UNCHANGED <<start_index, cf_bias, btVars, qVars, szVars, biasVars, feedVars, runVars, dbVars, smVars, pmVars>>

\* The window (end_index, or the candle list) ends here: line 561.
CF_ReturnNone ==
    /\ cf_returned = "NULL"
    /\ cf_returned' = "None"
    /\ UNCHANGED <<candles_5m, start_index, cf_bias, cf, cf_detected, cf_timestamps,
                   btVars, qVars, szVars, biasVars, feedVars, runVars, dbVars, smVars, pmVars>>

NextConfluence == CF_Candle \/ CF_ReturnNone

SpecConfluence == InitConfluence /\ [][NextConfluence]_vars

(***************************************************************************)
(* database/queries.py and PositionManager._close_position called          *)
(* directly, one call after another, on a table that holds one trade.  An  *)
(* action is one whole call.  q_last records the call: the rows the        *)
(* statement's WHERE clause matched (the n of the command status           *)
(* "UPDATE n", which update_paper_trade does not read), the exception that *)
(* left the call (raised), what the call logged as an error (logged) and   *)
(* the table before the call.                                              *)
(***************************************************************************)
TradeIds == {1, 2}
CloseReasons == {"STOP_LOSS", "TAKE_PROFIT", "TRAILING_STOP", "TIME_LIMIT"}
ExitPrices == {Dec(88), Dec(112)}

RowsMatched(rows, trade_id) == Cardinality({i \in DOMAIN rows : rows[i].id = trade_id})

InitQueries ==
    /\ paper_trades \in {<<StoredRow("LONG")>>, <<StoredRow("SHORT")>>}
    /\ confluence_state = {}
    /\ utcnow = 0
    /\ InitSM
    /\ InitPM
    /\ InitOffline

\* await close_paper_trade(trade_id, exit_price, pnl_usd, outcome, close_reason)
Q_Close ==
    /\ \E trade_id \in TradeIds, exit_price \in ExitPrices,
          close_reason \in CloseReasons, win \in BOOLEAN :
         /\ paper_trades' =
              close_paper_trade(paper_trades, trade_id, exit_price,
                                IF win THEN <<Dec(100), 1>> ELSE <<-Dec(100), 1>>,
                                IF win THEN "WIN" ELSE "LOSS", close_reason, utcnow)
         /\ q_last' = [op |-> "close_paper_trade", trade_id |-> trade_id,
                       close_reason |-> close_reason,
                       matched |-> RowsMatched(paper_trades, trade_id),
                       raised |-> "ok", logged |-> "ok", before |-> paper_trades]
    /\ UNCHANGED <<confluence_state, utcnow, smVars, pmVars, btVars, cfVars, szVars, biasVars, feedVars, runVars>>

\* await activate_trailing_stop(trade_id, trailing_price)
Q_Activate ==
    /\ \E trade_id \in TradeIds :
         /\ paper_trades' = activate_trailing_stop(paper_trades, trade_id, Dec(100))
         /\ q_last' = [op |-> "activate_trailing_stop", trade_id |-> trade_id,
                       close_reason |-> "NULL",
                       matched |-> RowsMatched(paper_trades, trade_id),
                       raised |-> "ok", logged |-> "ok", before |-> paper_trades]
    /\ UNCHANGED <<confluence_state, utcnow, smVars, pmVars, btVars, cfVars, szVars, biasVars, feedVars, runVars>>

\* await position_manager._close_position(trade_id, market_price, direction,
\* reason): the try block ends in the early return of line 282 or in the
\* except clause of line 332, which logs; nothing is raised to the caller.
Q_ClosePosition ==
    /\ \E trade_id \in TradeIds, market_price \in ExitPrices,
          direction \in {"LONG", "SHORT"}, reason \in CloseReasons :
         LET closed == _close_position(paper_trades, get_open_positions(paper_trades),
                                       trade_id, market_price, direction, 0, reason,
                                       utcnow)
         IN  /\ paper_trades' = closed.rows
             /\ q_last' = [op |-> "_close_position", trade_id |-> trade_id,
                           close_reason |-> reason,
                           matched |-> RowsMatched(paper_trades, trade_id),
                           raised |-> "ok", logged |-> closed.exc,
                           before |-> paper_trades]
    /\ UNCHANGED <<confluence_state, utcnow, smVars, pmVars, btVars, cfVars, szVars, biasVars, feedVars, runVars>>

NextQueries == Q_Close \/ Q_Activate \/ Q_ClosePosition \/ ClockTick

SpecQueries == InitQueries /\ [][NextQueries]_vars

(***************************************************************************)
(* trade_simulator.py, calculate_position_size and apply_slippage called   *)
(* directly, with arguments that need not be a balance, a price and a stop *)
(* the engine would pass.                                                  *)
(***************************************************************************)
SizingBalances == {-Dec(100), 0, Dec(100), Dec(1000), Dec(10000)}
SizingPrices == {-Dec(100), 0, Dec(95), Dec(100), Dec(105)}

InitSizing ==
    /\ paper_trades = <<>>
    /\ confluence_state = {}
    /\ utcnow = 0
    /\ InitSM
    /\ InitPM
    /\ InitOffline

SZ_Call ==
    /\ \E account_balance \in SizingBalances, entry_price \in SizingPrices,
          stop_loss \in SizingPrices :
         LET position == calculate_position_size(account_balance, entry_price, stop_loss)
         IN  sizing' = [called |-> TRUE, account_balance |-> account_balance,
                        entry_price |-> entry_price, stop_loss |-> stop_loss,
                        exc |-> position.exc, val |-> position.val]
    /\ UNCHANGED <<slipped, dbVars, smVars, pmVars, btVars, cfVars, qVars, biasVars, feedVars, runVars>>

\* apply_slippage called directly, with a quote that need not be positive.
SlippagePrices == {-Dec(100), 0, Dec(1), Dec(100), Dec(90000)}

SZ_Slippage ==
    /\ \E price \in SlippagePrices, direction \in {"LONG", "SHORT"}, is_entry \in BOOLEAN :
         LET filled_price == apply_slippage(price, direction, is_entry)
         IN  slipped' = [called |-> TRUE, price |-> price, direction |-> direction,
                         is_entry |-> is_entry, exc |-> filled_price.exc,
                         val |-> filled_price.val]
    /\ UNCHANGED <<sizing, dbVars, smVars, pmVars, btVars, cfVars, qVars, biasVars, feedVars, runVars>>

NextSizing == SZ_Call \/ SZ_Slippage

SpecSizing == InitSizing /\ [][NextSizing]_vars

(***************************************************************************)
(* historyBot/candleBias (backtest_4h_bias.py, backtest_4h_stress_test.py, *)
(* 5m_execution_backtest.py) and backtest.py: the swing locators and the   *)
(* 4H sweep/bias detectors.  A frame (the DataFrame df, the list           *)
(* candles_4h) is a sequence of candles [low, high, close]; row i of the   *)
(* code is At(df, i) and its timestamp is i.  A swing column is the set of *)
(* the rows it marks.  A level is named by the row of its swing.           *)
(***************************************************************************)
SWING_LOOKBACK == 20
EVALUATION_WINDOW == 8
MIN_SWING_AGE == 3
RSI_PERIOD == 14
RSI_BULL_THRESHOLD == 40
RSI_BEAR_THRESHOLD == 80
CONFIRMATION_REQUIRED == TRUE

\* calculate_rsi at row i.  gain and loss are the rolling sums of the 14
\* last gains and losses (14 times avg_gain and avg_loss; the delta of row 0
\* counts as 0); before 14 rows exist the rolling mean is NaN.  The value is
\* 100 - 100 / (1 + gain / loss) = 100 * gain / (gain + loss), pandas'
\* result also for loss = 0 (rs = inf), and NaN when both sums are 0.  A
\* comparison with NaN is False.
RECURSIVE RollingSum(_, _, _, _)
RollingSum(df, i, n, sign) ==
    IF n = 0 THEN 0
    ELSE LET delta == IF i = 0 THEN 0 ELSE sign * (At(df, i).close - At(df, i - 1).close)
         IN  (IF delta > 0 THEN delta ELSE 0) + RollingSum(df, i - 1, n - 1, sign)
calculate_rsi(df, i) ==
    IF i < RSI_PERIOD - 1 THEN [gain |-> 0, loss |-> 0]
    ELSE [gain |-> RollingSum(df, i, RSI_PERIOD, 1), loss |-> RollingSum(df, i, RSI_PERIOD, -1)]
isna(rsi) == rsi.gain + rsi.loss = 0
RsiLess(rsi, t) == ~isna(rsi) /\ 100 * rsi.gain < t * (rsi.gain + rsi.loss)
RsiGreater(rsi, t) == ~isna(rsi) /\ 100 * rsi.gain > t * (rsi.gain + rsi.loss)

\* backtest_4h_bias.py and backtest_4h_stress_test.py, detect_swings: the
\* 3-candle pattern, for i in range(1, len(df) - 1).
detect_swings(df) ==
    [swing_high |-> {i \in 1..(Len(df) - 2) :
                       /\ At(df, i).high > At(df, i - 1).high
                       /\ At(df, i).high > At(df, i + 1).high},
     swing_low |-> {i \in 1..(Len(df) - 2) :
                       /\ At(df, i).low < At(df, i - 1).low
                       /\ At(df, i).low < At(df, i + 1).low}]

\* 5m_execution_backtest.py, detect_swing_levels: two candles on each side,
\* for i in range(2, len(df) - 2).
detect_swing_levels(df) ==
    [swing_high |-> {i \in 2..(Len(df) - 3) :
                       /\ At(df, i).high > At(df, i - 1).high
                       /\ At(df, i).high > At(df, i - 2).high
                       /\ At(df, i).high > At(df, i + 1).high
                       /\ At(df, i).high > At(df, i + 2).high},
     swing_low |-> {i \in 2..(Len(df) - 3) :
                       /\ At(df, i).low < At(df, i - 1).low
                       /\ At(df, i).low < At(df, i - 2).low
                       /\ At(df, i).low < At(df, i + 1).low
                       /\ At(df, i).low < At(df, i + 2).low}]

\* The 2-candle swing test of backtest.py at row i (c, c_prev, c_next).
IsSwing(candles, i, swing_type) ==
    IF swing_type = "HIGH"
    THEN /\ At(candles, i).high > At(candles, i - 1).high
         /\ At(candles, i).high > At(candles, i + 1).high
    ELSE /\ At(candles, i).low < At(candles, i - 1).low
         /\ At(candles, i).low < At(candles, i + 1).low

\* The rows a loop `for i in range(current_index - 1, current_index -
\* lookback, -1)` of backtest.py gets to test: it breaks at i < 1 and skips
\* a row that has no next candle.
RowsBack(candles, current_index, lookback) ==
    {i \in (current_index - lookback + 1)..(current_index - 1) :
        i >= 1 /\ i + 1 < Len(candles)}

\* Variant of find_swing_level whose loop starts at current_index itself.
find_swing_level_from_current(candles, current_index, swing_type) ==
    LET lookback == IF current_index - 1 < 20 THEN current_index - 1 ELSE 20
        swings == {i \in RowsBack(candles, current_index + 1, lookback + 1) :
                      IsSwing(candles, i, swing_type)}
        i == SetMax(swings)
    IN  IF swings = {} THEN NoSwing
        ELSE [found |-> TRUE, index |-> i,
              price |-> IF swing_type = "HIGH" THEN At(candles, i).high
                        ELSE At(candles, i).low]

\* backtest.py, Backtester.find_swing_level (lines 563-605): the most recent
\* swing before current_index; index is the row it was found at.
find_swing_level(candles, current_index, swing_type) ==
    LET lookback == IF current_index - 1 < 20 THEN current_index - 1 ELSE 20
        swings == {i \in RowsBack(candles, current_index, lookback) :
                      IsSwing(candles, i, swing_type)}
        i == SetMax(swings)
    IN  IF swings = {} THEN NoSwing
        ELSE [found |-> TRUE, index |-> i,
              price |-> IF swing_type = "HIGH" THEN At(candles, i).high
                        ELSE At(candles, i).low]

\* backtest.py, Backtester.detect_liquidity_sweep_4h (lines 65-157).
\* sweep_threshold is 0.001: high * 1.001 and low * 0.999.  swing_idx is
\* the row of the swing whose price is returned.
detect_liquidity_sweep_4h(candles_4h, current_index) ==
    IF current_index < 3 THEN NoSweep
    ELSE LET lookback == IF current_index < 10 THEN current_index ELSE 10
             current == At(candles_4h, current_index)
             rows == RowsBack(candles_4h, current_index, lookback)
             highs == {i \in rows : /\ 1000 * current.high >= 1001 * At(candles_4h, i).high
                                    /\ IsSwing(candles_4h, i, "HIGH")}
             lows == {i \in rows : /\ 1000 * current.low <= 999 * At(candles_4h, i).low
                                   /\ IsSwing(candles_4h, i, "LOW")}
         IN  IF highs # {}
             THEN [found |-> TRUE, sweep_type |-> "HIGH", bias |-> "BEARISH",
                   price |-> At(candles_4h, SetMax(highs)).high,
                   swing_idx |-> SetMax(highs), timestamp |-> current_index]
             ELSE IF lows # {}
             THEN [found |-> TRUE, sweep_type |-> "LOW", bias |-> "BULLISH",
                   price |-> At(candles_4h, SetMax(lows)).low,
                   swing_idx |-> SetMax(lows), timestamp |-> current_index]
             ELSE NoSweep

\* detect_sweeps and detect_sweeps_frozen: the active list after the
\* tracking and pruning steps of pass i.
TrackSwings(active, swing, i) ==
    LET check_idx == i - MIN_SWING_AGE
        tracked == IF check_idx >= 0 /\ check_idx \in swing
                   THEN Append(active, check_idx) ELSE active
    IN  SelectSeq(tracked, LAMBDA idx : i - idx <= SWING_LOOKBACK)

\* The sweep geometry of candle i against the level of row idx.
HighSwept(df, i, idx) ==
    At(df, i).high > At(df, idx).high /\ At(df, i).close < At(df, idx).high
LowSwept(df, i, idx) ==
    At(df, i).low < At(df, idx).low /\ At(df, i).close > At(df, idx).low

\* detect_sweeps_frozen: candle i gets past the RSI filter and the
\* confirmation filter (neither `continue` is taken).
FrozenFilters(df, i, sweep_type) ==
    LET current_rsi == calculate_rsi(df, i)
        confirm == CONFIRMATION_REQUIRED /\ i + 1 < Len(df)
    IN  IF sweep_type = "HIGH"
        THEN /\ ~RsiLess(current_rsi, RSI_BEAR_THRESHOLD)
             /\ ~(confirm /\ At(df, i + 1).close >= At(df, i).close)
        ELSE /\ ~RsiGreater(current_rsi, RSI_BULL_THRESHOLD)
             /\ ~(confirm /\ At(df, i + 1).close <= At(df, i).close)

\* One `for swing_idx, swing_price in active` loop of pass i: the first
\* level of the list that is swept (and, frozen, gets past the filters) is
\* appended to sweeps and removed from the list, and the loop breaks.
SweepPass(df, i, active, sweep_type, frozen) ==
    LET hits == SelectSeq(active, LAMBDA idx :
                    /\ IF sweep_type = "HIGH" THEN HighSwept(df, i, idx)
                                              ELSE LowSwept(df, i, idx)
                    /\ frozen => FrozenFilters(df, i, sweep_type))
    IN  IF hits = <<>> THEN [sweeps |-> <<>>, active |-> active]
        ELSE [sweeps |-> <<[candle_idx |-> i, sweep_type |-> sweep_type,
                            bias |-> IF sweep_type = "HIGH" THEN "BEARISH" ELSE "BULLISH",
                            swing_idx |-> hits[1],
                            swing_price |-> IF sweep_type = "HIGH" THEN At(df, hits[1]).high
                                            ELSE At(df, hits[1]).low]>>,
              active |-> SelectSeq(active, LAMBDA idx : idx # hits[1])]

\* The loop `for i in range(SWING_LOOKBACK, len(df) - EVALUATION_WINDOW)`
\* from pass i on: the sweeps it appends.
RECURSIVE SweepLoop(_, _, _, _, _, _)
SweepLoop(df, swings, i, active_swing_highs, active_swing_lows, frozen) ==
    IF i >= Len(df) - EVALUATION_WINDOW THEN <<>>
    ELSE LET high == SweepPass(df, i, TrackSwings(active_swing_highs, swings.swing_high, i), "HIGH", frozen)
             low == SweepPass(df, i, TrackSwings(active_swing_lows, swings.swing_low, i), "LOW", frozen)
         IN  high.sweeps \o low.sweeps
                 \o SweepLoop(df, swings, i + 1, high.active, low.active, frozen)

\* backtest_4h_bias.py, detect_sweeps (lines 102-181).
detect_sweeps(df) == SweepLoop(df, detect_swings(df), SWING_LOOKBACK, <<>>, <<>>, FALSE)

\* backtest_4h_stress_test.py, detect_sweeps_frozen (lines 170-251).
detect_sweeps_frozen(df) == SweepLoop(df, detect_swings(df), SWING_LOOKBACK, <<>>, <<>>, TRUE)

\* 5m_execution_backtest.py, get_recent_swing: the row of the last swing in
\* df.iloc[max(0, idx - lookback):idx], -1 for None.
get_recent_swing(swing, idx, lookback) ==
    LET swings == {k \in swing : k >= idx - lookback /\ k >= 0 /\ k < idx}
    IN  IF swings = {} THEN -1 ELSE SetMax(swings)

\* 5m_execution_backtest.py, detect_4h_bias_signals: the signals pass i of
\* the loop appends.  timestamp is the next candle's.  A NaN rsi, for which
\* the pass is skipped (line 134), fails both RSI comparisons.
BiasSignalsAt(df, levels, i) ==
    LET candle == At(df, i)
        next_candle == At(df, i + 1)
        rsi == calculate_rsi(df, i)
        low_idx == get_recent_swing(levels.swing_low, i, 20)
        high_idx == get_recent_swing(levels.swing_high, i, 20)
    IN  (IF /\ low_idx # -1
            /\ candle.low < At(df, low_idx).low /\ candle.close > At(df, low_idx).low
            /\ RsiLess(rsi, 40)
            /\ next_candle.close > candle.close
         THEN <<[candle_idx |-> i, timestamp |-> i + 1, bias |-> "BULLISH",
                 swing_idx |-> low_idx, swing_level |-> At(df, low_idx).low]>>
         ELSE <<>>)
        \o (IF /\ high_idx # -1
               /\ candle.high > At(df, high_idx).high /\ candle.close < At(df, high_idx).high
               /\ RsiGreater(rsi, 80)
               /\ next_candle.close < candle.close
            THEN <<[candle_idx |-> i, timestamp |-> i + 1, bias |-> "BEARISH",
                    swing_idx |-> high_idx, swing_level |-> At(df, high_idx).high]>>
            ELSE <<>>)

RECURSIVE BiasSignalLoop(_, _, _)
BiasSignalLoop(df, levels, i) ==
    IF i >= Len(df) - 1 THEN <<>>
    ELSE BiasSignalsAt(df, levels, i) \o BiasSignalLoop(df, levels, i + 1)

\* 5m_execution_backtest.py, detect_4h_bias_signals (lines 120-171).
detect_4h_bias_signals(df) == BiasSignalLoop(df, detect_swing_levels(df), 20)

\* Every detector run on one frame: detect_liquidity_sweep_4h for every
\* row, as run_backtest calls it (backtest.py line 918), find_swing_level
\* for the last row before the evaluation window, with later candles in the
\* list as in execute_backtest_trade (lines 636 and 658).
Detect(df) ==
    [swings |-> detect_swings(df),
     swing_levels |-> detect_swing_levels(df),
     sweeps |-> detect_sweeps(df),
     frozen |-> detect_sweeps_frozen(df),
     signals |-> detect_4h_bias_signals(df),
     sweep_4h |-> [k \in 1..Len(df) |-> detect_liquidity_sweep_4h(df, k - 1)],
     swing_level_high |-> find_swing_level(df, Len(df) - EVALUATION_WINDOW, "HIGH"),
     swing_level_low |-> find_swing_level(df, Len(df) - EVALUATION_WINDOW, "LOW")]

\* Inputs.  A frame is SWING_LOOKBACK - MIN_SWING_AGE flat candles of
\* history, a window of up to MaxCandles candles, and the EVALUATION_WINDOW
\* - 1 flat candles that the sweep loops never reach.
MaxCandles == 6
HistoryLevels == {300, 400, 500}
SweepCandles ==
    {Candle(400, 400, 400), Candle(300, 500, 400), Candle(100, 700, 400),
     Candle(400, 500, 500), Candle(300, 400, 300)}
Frame(level, window) ==
    [i \in 1..(SWING_LOOKBACK - MIN_SWING_AGE) |-> Candle(level, level, level)]
        \o window
        \o [i \in 1..(EVALUATION_WINDOW - 1) |-> Candle(level, level, level)]
Window(df) ==
    SubSeq(df, SWING_LOOKBACK - MIN_SWING_AGE + 1, Len(df) - (EVALUATION_WINDOW - 1))

InitBias ==
    /\ paper_trades = <<>>
    /\ confluence_state = {}
    /\ utcnow = 0
    /\ InitSM
    /\ InitPM
    /\ current_balance = 0
    /\ bt_call = NoCall
    /\ bt_monitor = NoMonitor
    /\ InitConfluenceIdle
    /\ q_last = NoQuery
    /\ sizing = NoSizing
    /\ slipped = NoSlippage
    /\ df_4h \in {Frame(level, <<>>) : level \in HistoryLevels}
    /\ detected = Detect(df_4h)
    /\ InitFeedIdle
    /\ run = NoRun

\* The scripts are run on the frame with one more candle in its window.
BS_Candle ==
    /\ Len(Window(df_4h)) < MaxCandles
    /\ \E candle \in SweepCandles :
         LET df == Frame(df_4h[1].close, Append(Window(df_4h), candle))
         IN  /\ df_4h' = df
             /\ detected' = Detect(df)
    /\ UNCHANGED <<dbVars, smVars, pmVars, btVars, cfVars, qVars, szVars, feedVars, runVars>>

NextBias == BS_Candle

SpecBias == InitBias /\ [][NextBias]_vars

(***************************************************************************)
(* market/price_feed.py, PriceFeed.get_current_price (lines 181-219), and  *)
(* the two tasks that call it: monitor_positions, once per pass and then   *)
(* asleep for check_interval (position_manager.py lines 50 and 68), and    *)
(* execute_paper_trade, once per dispatched signal (trade_simulator.py     *)
(* line 437).  Both pass use_cache = True.  Time is counted in ticks of    *)
(* 1 / TicksPerSecond seconds.  The call suspends at its one await, the    *)
(* request to the API; the market is one whose quote at tick t is          *)
(* Quote(t), so that a price tells when it was quoted.  None is 0 for a    *)
(* price and -1 for a time.  connect() has run: it fetches a price but     *)
(* does not store it (lines 63-67).                                        *)
(***************************************************************************)
TicksPerSecond == 2
_cache_duration == 1 * TicksPerSecond
check_interval == 1 * TicksPerSecond
MaxClock == 5

Quote(t) == Dec(100 + t)
QuotedAt(price) == (price - Dec(100)) \div Dec(1)

\* Lines 198-201: the cached price is used.
CacheFresh(use_cache, now) ==
    /\ use_cache /\ _last_price # 0 /\ _last_fetch_time # -1
    /\ now - _last_fetch_time < _cache_duration

\* The caller is back from get_current_price; monitor_positions then sleeps.
Returned(c, now) ==
    [pc |-> "idle", now |-> -1,
     wake |-> IF c = "monitor_positions" THEN now + check_interval ELSE 0]

\* get_current_price(use_cache=True) is called and runs to its cache hit
\* or to the await of line 204.
PF_Call(c) ==
    /\ feed_calls[c].pc = "idle"
    /\ feed_now >= feed_calls[c].wake
    /\ LET now == feed_now
       IN  IF CacheFresh(TRUE, now)
           THEN /\ feed_calls' = [feed_calls EXCEPT ![c] = Returned(c, feed_now)]
                /\ feed_returned' = [feed_returned EXCEPT ![c] =
                      [called_at |-> now, returned_at |-> feed_now,
                       cache_age |-> now - _last_fetch_time, cached |-> _last_price,
                       requested |-> FALSE, exc |-> "ok", price |-> _last_price]]
           ELSE /\ feed_calls' = [feed_calls EXCEPT ![c] =
                      [pc |-> "fetching", now |-> now, wake |-> 0]]
                /\ feed_returned' = [feed_returned EXCEPT ![c] =
                      [NoFeedReturn EXCEPT !.called_at = now,
                          !.cache_age = IF _last_fetch_time = -1 THEN -1
                                        ELSE now - _last_fetch_time,
                          !.cached = _last_price, !.requested = TRUE]]
    /\ UNCHANGED <<feed_now, _last_price, _last_fetch_time, api_fetched>>
    /\ UNCHANGED <<dbVars, smVars, pmVars, btVars, cfVars, qVars, szVars, biasVars, runVars>>

\* _fetch_price_from_api answers, with a price or with None, and the call
\* runs to its end (lines 206-219).
PF_Fetched(c) ==
    /\ feed_calls[c].pc = "fetching"
    /\ \E price \in {0, Quote(feed_now)} :
         /\ feed_calls' = [feed_calls EXCEPT ![c] = Returned(c, feed_now)]
         /\ IF price = 0
            THEN /\ feed_returned' = [feed_returned EXCEPT ![c] =
                       [@ EXCEPT !.returned_at = feed_now,
                           !.exc = IF _last_price # 0 THEN "ok" ELSE "RuntimeError",
                           !.price = _last_price]]
                 /\ UNCHANGED <<_last_price, _last_fetch_time, api_fetched>>
            ELSE /\ _last_price' = price
                 /\ _last_fetch_time' = feed_calls[c].now
                 /\ api_fetched' = <<api_fetched[2],
                                     [caller |-> c, started |-> feed_calls[c].now,
                                      completed |-> feed_now]>>
                 /\ feed_returned' = [feed_returned EXCEPT ![c] =
                       [@ EXCEPT !.returned_at = feed_now, !.exc = "ok", !.price = price]]
    /\ UNCHANGED feed_now
    /\ UNCHANGED <<dbVars, smVars, pmVars, btVars, cfVars, qVars, szVars, biasVars, runVars>>

FeedTick ==
    /\ feed_now < MaxClock
    /\ feed_now' = feed_now + 1
    /\ UNCHANGED <<_last_price, _last_fetch_time, feed_calls, feed_returned, api_fetched>>
    /\ UNCHANGED <<dbVars, smVars, pmVars, btVars, cfVars, qVars, szVars, biasVars, runVars>>

InitFeed ==
    /\ paper_trades = <<>>
    /\ confluence_state = {}
    /\ utcnow = 0
    /\ InitSM
    /\ InitPM
    /\ InitOffline

NextFeed ==
    \/ FeedTick
    \/ \E c \in Callers : PF_Call(c)
    \/ \E c \in Callers : PF_Fetched(c)

SpecFeed == InitFeed /\ [][NextFeed]_vars

(***************************************************************************)
(* backtest.py, Backtester.run_backtest (lines 868-979), one pass of the   *)
(* loop over candles_4h per step.  A 4H candle at row r has timestamp      *)
(* r * Per4h in units of one 5M period; the 5M candles are rows 0 to       *)
(* len - 1 with timestamps first, first + 1, ... (ORDER BY timestamp ASC,  *)
(* lines 889-890).  What detect_5m_confluence returns for a window is an   *)
(* input: None, or a signal whose BOS candle is a row of the window that   *)
(* three earlier candles of the window, none before row LOOKBACK_PERIOD,   *)
(* can precede.  The swings execute_backtest_trade finds are inputs too.   *)
(* run.search is the last call of detect_5m_confluence, run.abandoned the  *)
(* swept levels whose search returned None, run.attempt the last call of   *)
(* execute_backtest_trade.                                                 *)
(***************************************************************************)
Per4h == (4 * 60) \div 5
starting_balance == Dec(100)

\* Variant of line 933: the window ends 96 candles after its first.
confluence_window_end_doubled(current_5m_index, len) ==
    IF current_5m_index + 96 < len - 1 THEN current_5m_index + 96 ELSE len - 1

\* line 933: min(current_5m_index + 48, len(candles_5m) - 1)
confluence_window_end(current_5m_index, len) ==
    IF current_5m_index + 48 < len - 1 THEN current_5m_index + 48 ELSE len - 1

\* lines 928-930: the while loop that moves current_5m_index to the first
\* 5M candle whose timestamp is not before candle_4h_time.
CatchUp(current_5m_index, feed, candle_4h_time) ==
    LET wanted == candle_4h_time - feed.first
        reached == IF wanted > current_5m_index THEN wanted ELSE current_5m_index
    IN  IF reached > feed.len THEN feed.len ELSE reached

\* lines 977-979: the while loop that moves current_5m_index past exit_time.
PastExit(current_5m_index, feed, exit_time) ==
    CatchUp(current_5m_index, feed, exit_time + 1)

\* The rows detect_5m_confluence(candles_5m, start, end, bias) can return as
\* the BOS candle of a COMPLETE signal: the earliest and the last of them.
BosRows(start, end, len) ==
    LET last == IF end + 1 < len THEN end ELSE len - 1
        choch == IF start < LOOKBACK_PERIOD THEN LOOKBACK_PERIOD ELSE start
    IN  {i \in {choch + 3, last} : choch + 3 <= i /\ i <= last}

\* Inputs: two flat 4H candles and MaxRows candles after them; 5M candles
\* for the whole period, or 60 of them from 35 minutes after row 4 on.
MaxRows == 4
RunFrames ==
    {<<Candle(300, 300, 300), Candle(300, 300, 300)>> \o w :
        w \in [1..MaxRows -> SweepCandles]}
RunFeeds ==
    {[first |-> 0, len |-> (MaxRows + 3) * Per4h],
     [first |-> 4 * Per4h + 7, len |-> 60]}
RunSwings == {<<0, 0>>, <<Dec(95), 0>>, <<0, Dec(105)>>}

InitRun ==
    /\ paper_trades = <<>>
    /\ confluence_state = {}
    /\ utcnow = 0
    /\ InitSM
    /\ InitPM
    /\ current_balance = 0
    /\ bt_call = NoCall
    /\ bt_monitor = NoMonitor
    /\ InitConfluenceIdle
    /\ q_last = NoQuery
    /\ sizing = NoSizing
    /\ slipped = NoSlippage
    /\ df_4h = <<>>
    /\ detected = NoDetection
    /\ InitFeedIdle
    /\ \E candles_4h \in RunFrames, feed \in RunFeeds :
         run = [NoRun EXCEPT !.pc = "loop", !.candles_4h = candles_4h, !.feed = feed]

\* lines 942-943: `if not confluence: continue`; the for loop of line 913
\* goes on with the row after i4h.
AfterNone_same_row(i4h) == i4h
AfterNone(i4h) == i4h + 1

\* The pass of the loop of line 913 for row run.i4h.  run.abandoned is the
\* sweeps, as 4H row and swept swing, whose search has returned None.
RB_Candle ==
    /\ run.pc = "loop"
    /\ run.i4h < Len(run.candles_4h)
    /\ LET i4h == run.i4h
           candle_4h_time == i4h * Per4h
           sweep == detect_liquidity_sweep_4h(run.candles_4h, i4h)
           start == CatchUp(run.current_5m_index, run.feed, candle_4h_time)
           end == confluence_window_end(start, run.feed.len)
           level == <<sweep.sweep_type, sweep.swing_idx>>
           searched == [i4h |-> i4h, level |-> level, bias |-> sweep.bias,
                        candle_4h_time |-> candle_4h_time,
                        start |-> start, end |-> end, returned |-> "None",
                        bos |-> -1]
       IN  IF ~sweep.found \/ run.open_position # "None"
           THEN run' = [run EXCEPT !.i4h = i4h + 1]
           ELSE \/ run' = [run EXCEPT !.i4h = AfterNone(i4h),
                                      !.current_5m_index = start,
                                      !.search = searched,
                                      !.abandoned = @ \cup {[i4h |-> i4h, level |-> level]}]
                \/ \E entry_index \in BosRows(start, end, run.feed.len),
                      swing \in RunSwings :
                     LET complete == [searched EXCEPT !.returned = "COMPLETE",
                                                      !.bos = entry_index]
                         call == execute_backtest_trade(starting_balance, sweep.bias,
                                     Dec(100), swing[1], swing[2])
                         attempt == [i4h |-> i4h, entry_index |-> entry_index,
                                     entry_time |-> run.feed.first + entry_index,
                                     returned |-> call.returned, reached |-> call.reached]
                         after == [run EXCEPT !.current_5m_index = start,
                                              !.search = complete,
                                              !.attempt = attempt]
                     IN  IF call.returned = "None"
                         THEN run' = [after EXCEPT !.i4h = i4h + 1]
                         ELSE IF call.returned = "raise"
                         THEN run' = [after EXCEPT !.pc = "raised"]
                         ELSE \E held \in {1, max_duration_candles - 1} :
                                LET exit_time == attempt.entry_time + held
                                IN  run' = [after EXCEPT
                                       !.i4h = i4h + 1,
                                       !.trades = Append(@, [entry_time |-> attempt.entry_time,
                                                             exit_time |-> exit_time]),
                                       !.current_5m_index =
                                           PastExit(start, run.feed, exit_time)]
    /\ UNCHANGED <<dbVars, smVars, pmVars, btVars, cfVars, qVars, szVars, biasVars, feedVars>>

\* lines 981-989: the loop is over, the results are computed and returned.
RB_Return ==
    /\ run.pc = "loop"
    /\ run.i4h = Len(run.candles_4h)
    /\ run' = [run EXCEPT !.pc = "returned"]
    /\ UNCHANGED <<dbVars, smVars, pmVars, btVars, cfVars, qVars, szVars, biasVars, feedVars>>

NextRun == RB_Candle \/ RB_Return

SpecRun == InitRun /\ [][NextRun]_vars

(***************************************************************************)
(* Properties of the running system (specification Spec).                  *)
(***************************************************************************)

\* C1: under every interleaving of the signal-dispatch and position-poll
\* steps, paper_trades never holds more than one OPEN row; the dispatch loop
\* has a trade in flight (between its second open-position check and the
\* return of execute_paper_trade) only while the table holds no OPEN row.
C1_AtMostOneOpen ==
    /\ Len(OpenRows(paper_trades)) <= 1
    /\ sm_pc \in {"price", "swing5m", "swing4h"} => Len(OpenRows(paper_trades)) = 0

\* A trade attempt is in flight for a second signal while the position
\* manager is in the middle of a tick.
C1_Witness ==
    /\ sm_pc = "swing4h"
    /\ sm_last.confluence_id # 0
    /\ pm_pc = "open"

\* C6: when the swing queries answered and neither the 5M swing nor the 4H
\* swing gives a stop on the correct side of entry (the swing is absent, or
\* its buffered price is not below entry for LONG / above entry for SHORT),
\* calculate_stop_loss
\* returned None, execute_paper_trade returned None, no row was inserted and
\* no stop price was produced.
C6_NoSwingNoTrade ==
    LET a == sm_last
        Sided(swing) ==
            /\ swing # 0
            /\ IF a.direction = "LONG" THEN swing * 998 < a.current_price * 1000
               ELSE swing * 1003 > a.current_price * 1000
    IN  (/\ a.confluence_id # 0
         /\ a.exc # "PostgresError"
         /\ ~Sided(a.swing_5m)
         /\ ~Sided(a.swing_4h))
        => /\ a.stop_result = "None"
           /\ a.stop_price = 0
           /\ a.trade_id = 0
           /\ a.rows_after = a.rows_before

\* A LONG attempt at 92 whose 5M swing low (95) is above entry and which
\* finds no 4H swing at all, rejected with `return None`.
C6_Witness ==
    /\ sm_last.direction = "LONG"
    /\ sm_last.current_price = Dec(92)
    /\ sm_last.swing_5m = Dec(95)
    /\ sm_last.swing_4h = 0
    /\ sm_last.stop_result = "None"
    /\ sm_last.exc = "ok"

\* C7: calculate_stop_loss returns source 5M_SWING whenever the 5M swing's
\* buffered stop is on the correct side of entry, and source 4H_SWING when
\* it is not (or there is no 5M swing) and the 4H swing's buffered stop is.
C7_SwingPriority ==
    LET a == sm_last
        Sided(swing) ==
            /\ swing # 0
            /\ IF a.direction = "LONG" THEN swing * 998 < a.current_price * 1000
               ELSE swing * 1003 > a.current_price * 1000
    IN  (a.confluence_id # 0 /\ a.exc # "PostgresError") =>
          /\ Sided(a.swing_5m) => a.stop_result = "result" /\ a.source = "5M_SWING"
          /\ (~Sided(a.swing_5m) /\ Sided(a.swing_4h))
                => a.stop_result = "result" /\ a.source = "4H_SWING"

\* C8: one call of _check_position (one position on one poll tick) invokes
\* _close_position at most once, with one of the reasons time limit, stop
\* (original or trailing) or target, and a tick on which trailing is
\* activated invokes no close at all and leaves the row OPEN.
C8_OneCloseReasonPerTick ==
    /\ Len(pm_tick.closes) <= 1
    /\ \A i \in DOMAIN pm_tick.closes :
         pm_tick.closes[i] \in {"TIME_LIMIT", "STOP_LOSS", "TRAILING_STOP", "TAKE_PROFIT"}
    /\ pm_tick.activated =>
         /\ pm_tick.closes = <<>>
         /\ pm_tick.done => paper_trades[pm_tick.trade_id].status = "OPEN"

\* A finished tick on which the position was past the time limit and the
\* price (88) was also at or below the stop (90) of the LONG position: one
\* close, for the time limit.
C8_Witness ==
    /\ pm_tick.done
    /\ pm_tick.time_open > 72
    /\ pm_tick.current_price = Dec(88)
    /\ paper_trades[pm_tick.trade_id].direction = "LONG"
    /\ pm_tick.closes = <<"TIME_LIMIT">>

\* C9: after a poll tick that found a position open for more than 72 hours,
\* the position is CLOSED with close_reason TIME_LIMIT.
C9_TimeLimitCloses ==
    (pm_tick.done /\ pm_tick.time_open > 72)
    => /\ paper_trades[pm_tick.trade_id].status = "CLOSED"
       /\ paper_trades[pm_tick.trade_id].close_reason = "TIME_LIMIT"

\* C10: trailing activation is one-way.  A row whose trailing_stop_activated
\* is true keeps the flag and its trailing_stop_price in every later step;
\* activate_trailing_stop is called at most once per trade; and every check
\* of an activated position uses the trailing price, never the original
\* stop_loss, as its effective stop.
C10_TrailingOneWay ==
    /\ [](\A id \in DOMAIN activations : activations[id] <= 1)
    /\ []((pm_tick.trade_id # 0 /\ pm_tick.trailing_activated)
            => /\ pm_tick.effective_stop = paper_trades[pm_tick.trade_id].trailing_stop_price
               /\ pm_tick.effective_stop # paper_trades[pm_tick.trade_id].stop_loss)
    /\ [][\A i \in DOMAIN paper_trades :
            paper_trades[i].trailing_stop_activated
            => /\ i \in DOMAIN paper_trades'
               /\ paper_trades'[i].trailing_stop_activated
               /\ paper_trades'[i].trailing_stop_price = paper_trades[i].trailing_stop_price
         ]_vars

\* A finished tick on a position whose trailing stop had been activated by an
\* earlier tick, at a price (108) that is again 80% of the way to the target.
C10_Witness ==
    /\ activations[1] = 1
    /\ pm_tick.done
    /\ pm_tick.trailing_activated
    /\ pm_tick.current_price = Dec(108)
    /\ paper_trades[1].direction = "LONG"
    /\ paper_trades[1].trailing_stop_activated

\* C14: paper_trades never holds two rows with the confluence_id of one
\* signal; the dispatch loop starts a trade attempt only for a signal that
\* has no row yet and was not attempted in this session; and an attempt that
\* returned no trade id left the table with the rows it had.
C14_OneRowPerSignal ==
    /\ \A id \in SignalIds :
         Cardinality({i \in DOMAIN paper_trades : paper_trades[i].confluence_id = id})
             <= 1
    /\ sm_trade.confluence_id # 0
         => /\ sm_trade.confluence_id \notin TradedSignals(paper_trades)
            /\ sm_trade.confluence_id \notin _processed_signals
    /\ (sm_last.confluence_id # 0 /\ sm_last.trade_id = 0)
         => /\ sm_last.rows_after = sm_last.rows_before
            /\ sm_last.confluence_id \notin TradedSignals(paper_trades)

\* The signal an earlier session traded is COMPLETE again in front of the
\* dispatch loop, which has fetched the signals and had an attempt for
\* another signal rejected.
C14_Witness ==
    /\ paper_trades # <<>>
    /\ paper_trades[1].confluence_id \in confluence_state
    /\ sm_last.confluence_id # 0
    /\ sm_last.confluence_id # paper_trades[1].confluence_id
    /\ sm_last.trade_id = 0
    /\ sm_pc = "signals"

C16_FailedAttemptIsRetried ==
    (sm_last.confluence_id # 0 /\ sm_last.exc = "PostgresError")
    => sm_last.confluence_id \notin _processed_signals

\* C18: when the system is stopped no tick is cut short: the position-poll
\* task is not ended while a call of _close_position it has started is
\* still to return.
C18_CloseRunsToCompletion ==
    pm_pc = "cancelled" => ~(pm_calls # <<>> /\ Head(pm_calls).op = "close")

C2_RiskIsOnePercent ==
    bt_call.reached \in {"apply_slippage", "calculate_fee", "rr_ratio", "return"}
    => bt_call.position.risk_amount * 100 = current_balance

\* A SHORT call on a balance of 1000 whose position risks 10.
C2_Witness ==
    /\ bt_call.reached = "calculate_fee"
    /\ bt_call.bias = "BEARISH"
    /\ current_balance = Dec(1000)
    /\ bt_call.position.risk_amount = Dec(10)

\* C3: the stop of every trade is strictly below the entry price the trade
\* records (the slippage-adjusted one) for LONG and strictly above it for
\* SHORT.
C3_StopOnCorrectSide ==
    bt_call.reached \in {"calculate_fee", "rr_ratio", "return"}
    => IF bt_call.bias = "BULLISH"
       THEN bt_call.stop_result.price < bt_call.entry_price_slipped
       ELSE bt_call.stop_result.price > bt_call.entry_price_slipped

\* A SHORT call at 100 with the 4H swing high 105: stop 105.315, above the
\* adjusted entry 95.
C3_Witness ==
    /\ bt_call.reached = "calculate_fee"
    /\ bt_call.bias = "BEARISH"
    /\ bt_call.entry_price = Dec(100)
    /\ bt_call.stop_result.source = "4H_SWING"
    /\ bt_call.stop_result.price = 105315
    /\ bt_call.entry_price_slipped = Dec(95)

\* C4: the target distance of every trade is at least twice its stop
\* distance, both measured from the entry price the trade records.
C4_RewardAtLeastTwiceRisk ==
    bt_call.reached \in {"calculate_fee", "rr_ratio", "return"}
    => bt_call.target_distance >= 2 * bt_call.stop_distance

\* C20: for entry 90000, direction LONG, 5M swing low 87480 and balance
\* 10000, the buffered stop is 87305.04 (87480 x 0.998), the minimum
\* take-profit is 92694.96 (entry plus the stop distance 2694.96), the risk
\* amount is 100 and the position quantity is 100 / 2694.96.
C20_SizingExample ==
    (/\ bt_call.returned # "NULL"
     /\ bt_call.bias = "BULLISH"
     /\ bt_call.entry_price = Dec(90000)
     /\ bt_call.swing_5m = Dec(87480)
     /\ current_balance = Dec(10000))
    => /\ bt_call.stop_result.price = 87305040
       /\ bt_call.stop_result.min_tp = 92694960
       /\ bt_call.position.risk_amount = Dec(100)
       /\ bt_call.position.btc = <<Dec(100), 2694960>>

\* The call of the example, past calculate_position_size.
C20_Witness ==
    /\ bt_call.bias = "BULLISH"
    /\ bt_call.entry_price = Dec(90000)
    /\ bt_call.swing_5m = Dec(87480)
    /\ current_balance = Dec(10000)
    /\ bt_call.stop_result.source = "5M_SWING"
    /\ bt_call.position.stop_distance > 0

\* C20 as stated: the buffered stop is 87304.96, the minimum take-profit
\* 92695.04, the risk amount 100 and the quantity 100 / 2695.04.
C20_AsStated ==
    (/\ bt_call.returned # "NULL"
     /\ bt_call.bias = "BULLISH"
     /\ bt_call.entry_price = Dec(90000)
     /\ bt_call.swing_5m = Dec(87480)
     /\ current_balance = Dec(10000))
    => /\ bt_call.stop_result.price = 87304960
       /\ bt_call.stop_result.min_tp = 92695040
       /\ bt_call.position.risk_amount = Dec(100)
       /\ bt_call.position.btc = <<Dec(100), 2695040>>

C5_StagesInOrder ==
    /\ [](cf_returned = "COMPLETE" =>
            /\ cf.choch_result.found /\ cf.fvg_result.found
            /\ cf.fvg_fill_result.found /\ cf.bos_result.found
            /\ start_index <= cf.choch_result.index
            /\ cf.choch_result.index < cf.fvg_result.index
            /\ cf.fvg_result.index < cf.fvg_fill_result.index
            /\ cf.fvg_fill_result.index < cf.bos_result.index
            /\ cf_detected = <<"CHOCH", "FVG", "FVG_FILL", "BOS">>)
    /\ [](/\ Len(cf_detected) <= 4
          /\ \A k \in DOMAIN cf_detected :
               cf_detected[k] = <<"CHOCH", "FVG", "FVG_FILL", "BOS">>[k])
    /\ [][/\ cf.choch_result.found => cf'.choch_result = cf.choch_result
          /\ cf.fvg_result.found => cf'.fvg_result = cf.fvg_result
          /\ cf.fvg_fill_result.found => cf'.fvg_fill_result = cf.fvg_fill_result
          /\ cf.bos_result.found => cf'.bos_result = cf.bos_result
          /\ ~cf.choch_result.found => ~cf'.fvg_result.found
          /\ ~cf.fvg_result.found => ~cf'.fvg_fill_result.found
          /\ ~cf.fvg_fill_result.found => ~cf'.bos_result.found
       ]_vars

\* A BEARISH search that returned COMPLETE.
C5_Witness ==
    /\ cf_returned = "COMPLETE"
    /\ cf_bias = "BEARISH"
    /\ cf.bos_result.found

\* C21: a candle list whose timestamps are not strictly increasing is
\* rejected by detect_5m_confluence: no stage result is set from it and the
\* call does not return a COMPLETE signal.
C21_OutOfOrderRejected ==
    (\E i \in 1..(Len(cf_timestamps) - 1) : cf_timestamps[i + 1] <= cf_timestamps[i])
        => (cf = NoStages /\ cf_returned # "COMPLETE")

\* C34: each candle of the window is offered to the detector of the
\* current state only: a pass of the loop sets no stage result or exactly
\* the one the search is waiting for, with the index of the candle of that
\* pass, and leaves the other results as they were; so the CHoCH, FVG,
\* FVG-fill and BOS candles of a COMPLETE signal are four candles with
\* strictly increasing indices.
C34_OneDetectorPerCandle ==
    /\ [][candles_5m' # candles_5m =>
            LET waiting == IF ~cf.choch_result.found THEN "CHOCH"
                           ELSE IF ~cf.fvg_result.found THEN "FVG"
                           ELSE IF ~cf.fvg_fill_result.found THEN "FVG_FILL"
                           ELSE "BOS"
                set == Changed(cf, cf')
                result == IF waiting = "CHOCH" THEN cf'.choch_result
                          ELSE IF waiting = "FVG" THEN cf'.fvg_result
                          ELSE IF waiting = "FVG_FILL" THEN cf'.fvg_fill_result
                          ELSE cf'.bos_result
            IN  \/ set = <<>> /\ cf' = cf
                \/ set = <<waiting>> /\ result.found /\ result.index = Len(candles_5m)
       ]_vars
    /\ [](cf_returned = "COMPLETE" =>
            Cardinality({cf.choch_result.index, cf.fvg_result.index,
                         cf.fvg_fill_result.index, cf.bos_result.index}) = 4)

\* A COMPLETE BULLISH signal with a candle between its FVG-fill and BOS
\* candles that matched nothing.
C34_Witness ==
    /\ cf_returned = "COMPLETE"
    /\ cf_bias = "BULLISH"
    /\ cf.bos_result.index > cf.fvg_fill_result.index + 1

\* C36: while the search waits for the FVG fill, a pass of the loop sets
\* the fill result if and only if the candle of the pass re-enters the
\* recorded gap zone: its low is at or below the top of the zone (BULLISH),
\* its high is at or above the bottom of the zone (BEARISH).
C36_FillOnReentry ==
    [][(candles_5m' # candles_5m /\ cf.fvg_result.found /\ ~cf.fvg_fill_result.found) =>
          LET candle == candles_5m'[Len(candles_5m')]
          IN  cf'.fvg_fill_result.found <=>
                 IF cf_bias = "BULLISH" THEN candle.low <= cf.fvg_result.top
                 ELSE candle.high >= cf.fvg_result.bottom
      ]_vars

(***************************************************************************)
(* Properties of the datastore statements called directly (specification   *)
(* SpecQueries).  The trade of the table has id 1; id 2 is not in it.      *)
(***************************************************************************)

\* C12: closing a trade that is already CLOSED, with the close reason the
\* row already stores, is a no-op: status, exit_price, exit_time, pnl_usd,
\* outcome and close_reason of the row are what they were before the call.
C12_SecondCloseIsNoOp ==
    (/\ q_last.op = "close_paper_trade"
     /\ q_last.trade_id = 1
     /\ q_last.before[1].status = "CLOSED"
     /\ q_last.before[1].close_reason = q_last.close_reason)
    => \A f \in {"status", "exit_price", "exit_time", "pnl_usd", "outcome",
                 "close_reason"} :
         paper_trades[1][f] = q_last.before[1][f]

\* C13: closing a trade that is already CLOSED, with a close reason other
\* than the stored one, is reported as an error (raised or logged) and
\* leaves the stored close_reason and exit fields as they were.
C13_DifferentReasonIsError ==
    (/\ q_last.op \in {"close_paper_trade", "_close_position"}
     /\ q_last.trade_id = 1
     /\ q_last.before[1].status = "CLOSED"
     /\ q_last.before[1].close_reason # q_last.close_reason)
    => /\ q_last.raised # "ok" \/ q_last.logged # "ok"
       /\ \A f \in {"status", "exit_price", "exit_time", "pnl_usd", "outcome",
                    "close_reason"} :
            paper_trades[1][f] = q_last.before[1][f]

\* C17: an update or a close whose trade id matches no row of paper_trades
\* ends in an exception raised to its caller.
C17_UnknownIdFailsLoudly ==
    (q_last.op # "NULL" /\ q_last.matched = 0) => q_last.raised # "ok"

(***************************************************************************)
(* Properties of calculate_position_size (specification SpecSizing).       *)
(***************************************************************************)

\* C19: calculate_position_size raises ValueError and returns no
\* PositionSize whenever account_balance <= 0, entry_price <= 0,
\* stop_loss <= 0 or entry_price = stop_loss; it raises nothing else, and a
\* PositionSize it returns was divided by a stop distance that is not zero.
C19_SizingRejectsBadInput ==
    sizing.called
    => /\ (\/ sizing.account_balance <= 0
           \/ sizing.entry_price <= 0
           \/ sizing.stop_loss <= 0
           \/ sizing.entry_price = sizing.stop_loss)
          => (sizing.exc = "ValueError" /\ sizing.val = NoPosition)
       /\ sizing.exc \in {"ok", "ValueError"}
       /\ sizing.exc = "ok"
          => /\ sizing.val.btc[2] = Abs(sizing.entry_price - sizing.stop_loss)
             /\ sizing.val.btc[2] # 0

\* A call with a positive balance and a stop equal to a positive entry.
C19_Witness ==
    /\ sizing.called
    /\ sizing.account_balance > 0
    /\ sizing.entry_price > 0
    /\ sizing.entry_price = sizing.stop_loss
    /\ sizing.exc = "ValueError"

(***************************************************************************)
(* Properties of the swing locators and the sweep/bias detectors           *)
(* (specification SpecBias).                                               *)
(***************************************************************************)

\* C22: no swing locator reports a swing at one of the last r candles of
\* the slice it is given (detect_swings r = 1, detect_swing_levels r = 2,
\* find_swing_level r = 1 with the slice ending at current_index), and its
\* verdict on a candle does not depend on candles after the slice.  With
\* the slice that ends at the last candle before the evaluation window:
\* detect_swings and detect_swing_levels mark on the slice the swings they
\* mark on the whole frame less those of the last r candles of the slice,
\* and find_swing_level answers for that last candle on the whole frame
\* what it answers on the slice, a row before it.
C22_SwingsNeedConfirmedCandles ==
    LET k == Len(df_4h) - (EVALUATION_WINDOW - 1)
        slice == SubSeq(df_4h, 1, k)
    IN  /\ detect_swings(slice).swing_high = {i \in detected.swings.swing_high : i <= k - 2}
        /\ detect_swings(slice).swing_low = {i \in detected.swings.swing_low : i <= k - 2}
        /\ detect_swing_levels(slice).swing_high = {i \in detected.swing_levels.swing_high : i <= k - 3}
        /\ detect_swing_levels(slice).swing_low = {i \in detected.swing_levels.swing_low : i <= k - 3}
        /\ detected.swing_level_high = find_swing_level(slice, k - 1, "HIGH")
        /\ detected.swing_level_low = find_swing_level(slice, k - 1, "LOW")
        /\ detected.swing_level_high.index < k - 1
        /\ detected.swing_level_low.index < k - 1

\* The last candle before the evaluation window is a swing high for
\* detect_swings on the whole frame, the candle two rows before it one for
\* detect_swing_levels, and find_swing_level answers an earlier row.
C22_Witness ==
    LET last == Len(df_4h) - EVALUATION_WINDOW
    IN  /\ last \in detected.swings.swing_high
        /\ last - 2 \in detected.swing_levels.swing_high
        /\ detected.swing_level_high.found
        /\ detected.swing_level_high.index = last - 2

\* C23: a swing level is swept at most once: no detector reports two sweeps
\* of the same kind of the same level, whether in the list detect_sweeps or
\* detect_sweeps_frozen returns or in the answers of
\* detect_liquidity_sweep_4h for the rows of one frame.
C23_LevelSweptOnce ==
    /\ \A a, b \in DOMAIN detected.sweeps :
          (/\ detected.sweeps[a].sweep_type = detected.sweeps[b].sweep_type
           /\ detected.sweeps[a].swing_idx = detected.sweeps[b].swing_idx) => a = b
    /\ \A a, b \in DOMAIN detected.frozen :
          (/\ detected.frozen[a].sweep_type = detected.frozen[b].sweep_type
           /\ detected.frozen[a].swing_idx = detected.frozen[b].swing_idx) => a = b
    /\ \A a, b \in DOMAIN detected.sweep_4h :
          (/\ detected.sweep_4h[a].found /\ detected.sweep_4h[b].found
           /\ detected.sweep_4h[a].sweep_type = detected.sweep_4h[b].sweep_type
           /\ detected.sweep_4h[a].swing_idx = detected.sweep_4h[b].swing_idx) => a = b

\* C24: a bias is emitted for a candle only if the sweep geometry holds (the
\* wick is beyond the level and the close is back inside it), the RSI at the
\* sweep candle is a number on the bias's side of its threshold, and the
\* next candle closes further in the bias direction: for every sweep of
\* detect_sweeps_frozen, every signal of detect_4h_bias_signals and every
\* answer of detect_liquidity_sweep_4h.
C24_BiasNeedsSweepGateConfirmation ==
    LET Geometry(i, idx, bias) ==
            IF bias = "BEARISH" THEN HighSwept(df_4h, i, idx) ELSE LowSwept(df_4h, i, idx)
        Gate(i, bias) ==
            /\ ~isna(calculate_rsi(df_4h, i))
            /\ IF bias = "BEARISH"
               THEN ~RsiLess(calculate_rsi(df_4h, i), RSI_BEAR_THRESHOLD)
               ELSE ~RsiGreater(calculate_rsi(df_4h, i), RSI_BULL_THRESHOLD)
        Confirmed(i, bias) ==
            /\ i + 1 < Len(df_4h)
            /\ IF bias = "BEARISH"
               THEN At(df_4h, i + 1).close < At(df_4h, i).close
               ELSE At(df_4h, i + 1).close > At(df_4h, i).close
        Gated(i, idx, bias) == Geometry(i, idx, bias) /\ Gate(i, bias) /\ Confirmed(i, bias)
    IN  /\ \A a \in DOMAIN detected.frozen :
              Gated(detected.frozen[a].candle_idx, detected.frozen[a].swing_idx,
                    detected.frozen[a].bias)
        /\ \A a \in DOMAIN detected.signals :
              Gated(detected.signals[a].candle_idx, detected.signals[a].swing_idx,
                    detected.signals[a].bias)
        /\ \A a \in DOMAIN detected.sweep_4h :
              detected.sweep_4h[a].found =>
                  Gated(detected.sweep_4h[a].timestamp, detected.sweep_4h[a].swing_idx,
                        detected.sweep_4h[a].bias)

\* C25: at most one bias is emitted per sweep candle, and it is for the
\* oldest active level the candle sweeps: in the list of detect_sweeps, of
\* detect_sweeps_frozen and of detect_4h_bias_signals no two entries are for
\* the same candle, and no swing of the entry's kind that is older than the
\* entry's level, within the lookback, and not swept before is swept by the
\* entry's candle as well.
C25_OneBiasPerCandle ==
    LET Swept(i, idx, bias) ==
            IF bias = "BEARISH" THEN HighSwept(df_4h, i, idx) ELSE LowSwept(df_4h, i, idx)
        OldestWins(list, swings, min_age) ==
            \A a \in DOMAIN list : \A idx \in (IF list[a].bias = "BEARISH" THEN swings.swing_high ELSE swings.swing_low) :
                (/\ idx < list[a].swing_idx
                 /\ list[a].candle_idx - idx >= min_age
                 /\ list[a].candle_idx - idx <= SWING_LOOKBACK
                 /\ \A b \in 1..(a - 1) : list[b].bias = list[a].bias => list[b].swing_idx # idx)
                    => ~Swept(list[a].candle_idx, idx, list[a].bias)
        OnePerCandle(list) ==
            \A a, b \in DOMAIN list : list[a].candle_idx = list[b].candle_idx => a = b
    IN  /\ OnePerCandle(detected.sweeps)
        /\ OnePerCandle(detected.frozen)
        /\ OnePerCandle(detected.signals)
        /\ OldestWins(detected.sweeps, detected.swings, MIN_SWING_AGE)
        /\ OldestWins(detected.frozen, detected.swings, MIN_SWING_AGE)
        /\ OldestWins(detected.signals, detected.swing_levels, 1)

(***************************************************************************)
(* Properties of apply_slippage (specification SpecSizing).                *)
(***************************************************************************)

\* C26: for every positive quote price apply_slippage returns a fill that is
\* strictly worse than the quote: higher for a LONG entry and a SHORT exit,
\* lower for a SHORT entry and a LONG exit.
C26_SlippageIsAdverse ==
    (slipped.called /\ slipped.price > 0) =>
        /\ slipped.exc = "ok"
        /\ IF (slipped.direction = "LONG") = slipped.is_entry
           THEN slipped.val > slipped.price
           ELSE slipped.val < slipped.price

\* A SHORT exit at a positive quote was filled above it.
C26_Witness ==
    /\ slipped.called /\ slipped.price = Dec(90000)
    /\ slipped.direction = "SHORT" /\ ~slipped.is_entry
    /\ slipped.val = Dec(94500)

(***************************************************************************)
(* Properties of the price feed (specification SpecFeed).                  *)
(***************************************************************************)

\* C27: every price get_current_price returns is fresh within the cache
\* interval: it was quoted during the call that returns it, or less than
\* _cache_duration (1 second) before that call was made.
C27_ReturnedPriceIsFresh ==
    \A c \in Callers :
        LET r == feed_returned[c]
        IN  (r.returned_at # -1 /\ r.exc = "ok") =>
                \/ QuotedAt(r.price) >= r.called_at
                \/ r.called_at - QuotedAt(r.price) < _cache_duration

\* C28: with use_cache = True a call made less than _cache_duration after
\* the recorded time of the last successful fetch performs no API request
\* and returns the cached price, and no two requests that the API answered
\* with a price were both made and both answered within less than one cache
\* interval of each other.
C28_CacheBoundsCallRate ==
    /\ \A c \in Callers :
         LET r == feed_returned[c]
         IN  (r.called_at # -1 /\ r.cached # 0 /\ r.cache_age \in 0..(_cache_duration - 1))
                 => (~r.requested /\ r.price = r.cached)
    /\ (api_fetched[1].caller # "NULL") =>
           ~ /\ api_fetched[2].started - api_fetched[1].started < _cache_duration
             /\ api_fetched[2].completed - api_fetched[1].completed < _cache_duration

(***************************************************************************)
(* Properties of closing and opening a trade (specification Spec).         *)
(***************************************************************************)

\* C29: after a poll tick that found an OPEN position within its time limit
\* with the polled price at or beyond the effective stop, or at or beyond
\* the target, the row is CLOSED with the reason of that condition:
\* STOP_LOSS (TRAILING_STOP once trailing is activated) or TAKE_PROFIT.
C29_StopOrTargetCloses ==
    LET row == paper_trades[pm_tick.trade_id]
        stop_hit == IF row.direction = "LONG"
                    THEN pm_tick.current_price <= pm_tick.effective_stop
                    ELSE pm_tick.current_price >= pm_tick.effective_stop
        target_hit == IF row.direction = "LONG"
                      THEN pm_tick.current_price >= row.take_profit
                      ELSE pm_tick.current_price <= row.take_profit
    IN  (pm_tick.done /\ pm_tick.time_open <= max_trade_duration_hours
            /\ (stop_hit \/ target_hit))
        => /\ row.status = "CLOSED"
           /\ row.close_reason =
                 IF stop_hit
                 THEN (IF pm_tick.trailing_activated THEN "TRAILING_STOP" ELSE "STOP_LOSS")
                 ELSE "TAKE_PROFIT"

\* C30: a trade attempt for a COMPLETE untraded signal, made while no row
\* was OPEN, that got a price, a positive balance and a 5M or 4H swing whose
\* buffered stop is on the correct side of entry, inserted exactly one row
\* and returned its id.
C30_AcceptedSignalOpensTrade ==
    LET a == sm_last
        Sided(swing) ==
            /\ swing # 0
            /\ IF a.direction = "LONG" THEN swing * 998 < a.current_price * 1000
               ELSE swing * 1003 > a.current_price * 1000
    IN  (/\ a.confluence_id # 0
         /\ a.open_before = 0
         /\ a.current_price > 0
         /\ a.exc \notin {"PostgresError", "RuntimeError"}
         /\ Sided(a.swing_5m) \/ Sided(a.swing_4h))
        => /\ a.trade_id # 0
           /\ a.rows_after = a.rows_before + 1

\* C31: on a finished poll tick within the time limit the stop compared
\* is trailing_stop_price when trailing was active on the row the tick
\* read and stop_loss otherwise; the position is closed for its stop if and
\* only if the price is at or below that stop (LONG) or at or above it
\* (SHORT); and the close_reason requested and recorded is TRAILING_STOP
\* when trailing was active at that tick and STOP_LOSS when it was not.
C31_StopComparison ==
    LET row == paper_trades[pm_tick.trade_id]
        reason == IF pm_tick.trailing_activated THEN "TRAILING_STOP" ELSE "STOP_LOSS"
        stop == IF pm_tick.trailing_activated THEN row.trailing_stop_price
                ELSE row.stop_loss
        hit == IF row.direction = "LONG" THEN pm_tick.current_price <= stop
               ELSE pm_tick.current_price >= stop
    IN  (pm_tick.done /\ pm_tick.time_open <= max_trade_duration_hours) =>
            /\ pm_tick.effective_stop = stop
            /\ hit <=> pm_tick.closes = <<reason>>
            /\ hit <=> (row.status = "CLOSED" /\ row.close_reason = reason)

(***************************************************************************)
(* Properties of monitor_backtest_trade (specification SpecMonitor).       *)
(***************************************************************************)

\* C32: trailing is activated only on a candle whose close has moved from
\* the entry toward the take-profit, on the profit side of the entry, by at
\* least 80% of the distance from entry to target, and the activation sets
\* the trailing stop to the entry price.
C32_TrailingNeedsProfit ==
    LET trade == StoredRow(bt_monitor.direction)
        close == bt_monitor.candles_5m[bt_monitor.activated_at].close
    IN  bt_monitor.activated_at # 0 =>
            /\ bt_monitor.trailing_stop = trade.entry_price
            /\ IF trade.direction = "LONG"
               THEN (close - trade.entry_price) * 100
                        >= 80 * (trade.take_profit - trade.entry_price)
               ELSE (trade.entry_price - close) * 100
                        >= 80 * (trade.entry_price - trade.take_profit)

\* C33: on the candle on which trailing is activated neither the stop nor
\* the target of the trade fired, and the trade is not closed on that
\* candle for any reason.
C33_NoCloseOnActivationCandle ==
    LET trade == StoredRow(bt_monitor.direction)
        candle == bt_monitor.candles_5m[bt_monitor.activated_at]
    IN  bt_monitor.activated_at # 0 =>
            /\ IF trade.direction = "LONG"
               THEN candle.low > trade.stop_loss /\ candle.high < trade.take_profit
               ELSE candle.high < trade.stop_loss /\ candle.low > trade.take_profit
            /\ bt_monitor.exit_reason # "NULL"
                   => bt_monitor.exit_index > bt_monitor.activated_at

(***************************************************************************)
(* Properties of run_backtest (specification SpecRun).                     *)
(***************************************************************************)

C38_OnePositionAtATime ==
    \A k \in 2..Len(run.trades) :
        run.trades[k].entry_time > run.trades[k - 1].exit_time

====
